---- MODULE Spec2Model ----
(***************************************************************************)
(* protoc-gen-graphql: the dual-context reachability analyzer              *)
(* (package analyzer, TypeAnalyzer) and its endpoint filter, the           *)
(* projection of one file into a Schema (CreateSchema) and the merge of    *)
(* the schemas into one output (Plugin.generateCombinedOutput).            *)
(*                                                                         *)
(* Strings that name types are modelled as sequences of tokens: the        *)
(* separator "." is one token and every identifier is one token, so        *)
(* concatenation is \o, "starts with '.'" is Head(s) = Dot and a suffix    *)
(* test is a test on the tail of the sequence.  The empty string is <<>>.  *)
(***************************************************************************)
EXTENDS Integers, Sequences, FiniteSets, TLC

VARIABLES
    typeRegistry,          \* ta.typeRegistry
    enumRegistry,          \* ta.enumRegistry
    packageName,           \* ta.packageName
    packageNames,          \* ta.packageNames
    inputReachableTypes,   \* ta.inputReachableTypes
    outputReachableTypes,  \* ta.outputReachableTypes
    reachableEnums,        \* ta.reachableEnums
    inProgressInput,       \* ta.inProgressInput
    inProgressOutput,      \* ta.inProgressOutput
    stack,                 \* activation records of the running Mark* calls
    rpc,                   \* position of AnalyzeRPCDependencies' loops
    resolved,              \* argument and result of the latest ResolveTypeName
    included,              \* arguments and result of the latest shouldIncludeMethod
    calls,                 \* number of top-level Mark* calls made so far
    repeat,                \* bookkeeping of a call that is made twice in a row
    schema,                \* the Schema that CreateSchema builds for one file
    plugin,                \* plugin.schema and the Schema generateCombinedOutput builds
    single,                \* the single-context TypeAnalyzer, run on the same input
    permuted               \* the sets of a fresh analyzer given the same calls reordered

vars == <<typeRegistry, enumRegistry, packageName, packageNames,
          inputReachableTypes, outputReachableTypes, reachableEnums,
          inProgressInput, inProgressOutput, stack, rpc, resolved, included,
          calls, repeat, schema, plugin, single, permuted>>

-----------------------------------------------------------------------------
(* Bounds of the model *)

\* Longest field list tried for the message whose fields vary.
MaxFields == 1

\* Deepest nesting of Mark* activations the model follows.
MaxDepth == 12

\* Number of top-level Mark* calls a caller makes on one analyzer (the
\* repetition of a call is not counted).
MaxCalls == 1

\* Largest number of schemas in plugin.schema when the output is combined.
MaxUnits == 2

\* Longest list of entries a schema of plugin.schema has in one category.
MaxEntries == 2

-----------------------------------------------------------------------------
(* Strings *)

Dot == "."

\* A Go string holding one identifier ("" is the empty string).
Tok(s) == IF s = "" THEN <<>> ELSE <<s>>

\* "." + pkg + "." + name
Qualified(pkg, name) == <<Dot>> \o Tok(pkg) \o <<Dot>> \o name

\* reachable[len(reachable)-len(suffix):] == suffix
HasSuffix(s, suffix) ==
    /\ Len(s) >= Len(suffix)
    /\ SubSeq(s, Len(s) - Len(suffix) + 1, Len(s)) = suffix

\* len(s) > 0 && s[0] == '.'
StartsWithDot(s) == Len(s) > 0 /\ Head(s) = Dot

-----------------------------------------------------------------------------
(* Descriptors *)

Msg(name, fields, nested, enums) ==
    [name |-> name, field |-> fields, nestedType |-> nested, enumType |-> enums]

\* A field: its kind, its type name, its name, and the (keep_case) option,
\* which a field may leave unset.
MessageField(typeName) ==
    [type |-> "message", typeName |-> typeName, name |-> "child_node", keepCase |-> "unset"]
EnumField(typeName) ==
    [type |-> "enum", typeName |-> typeName, name |-> "kind", keepCase |-> "unset"]
ScalarField ==
    [type |-> "string", typeName |-> <<>>, name |-> "first_name", keepCase |-> "unset"]

\* the field with another name and (keep_case) option
Named(field, name, keepCase) == [field EXCEPT !.name = name, !.keepCase = keepCase]

\* no gql_input in the options of a method
NoGqlInput == [set |-> FALSE]

\* options.GqlInput: gql_input { param, type }, with the flags parseType sets
GqlInput(param, type) ==
    [set |-> TRUE, param |-> param, type |-> type,
     primitive |-> FALSE, array |-> FALSE, empty |-> FALSE]

\* options.MethodOptions
MethodOptions(skip, target, kind, gqlInput, gqlOutput) ==
    [skip |-> skip, target |-> target, kind |-> kind,
     gqlInput |-> gqlInput, gqlOutput |-> gqlOutput]

MethodWith(name, inputType, outputType, methodOptions) ==
    [name |-> name, inputType |-> inputType, outputType |-> outputType,
     options |-> methodOptions]

Method(name, inputType, outputType, skip, target) ==
    MethodWith(name, inputType, outputType,
               MethodOptions(skip, target, "", NoGqlInput, <<>>))

File(pkg, messages, enums, services) ==
    [package |-> pkg, messageType |-> messages, enumType |-> enums,
     service |-> services]

-----------------------------------------------------------------------------
(* Type registry: NewTypeAnalyzer and the Register* methods *)

EmptyRegistry == [types |-> <<>>, enums |-> <<>>]

\* ta.typeRegistry[fullName] = message (a later write replaces an earlier one)
PutType(reg, fullName, message) ==
    [reg EXCEPT !.types = (fullName :> message) @@ reg.types]

\* ta.enumRegistry[fullName] = enum
PutEnum(reg, fullName, enum) ==
    [reg EXCEPT !.enums = (fullName :> enum) @@ reg.enums]

\* fullName of a top-level or nested declaration
FullName(prefix, pkgName, name) ==
    IF prefix = <<>>
    THEN IF pkgName # "" THEN Qualified(pkgName, Tok(name)) ELSE <<Dot>> \o Tok(name)
    ELSE prefix \o <<Dot>> \o Tok(name)

RECURSIVE registerNestedEnums(_, _, _)
registerNestedEnums(reg, enums, prefix) ==
    IF enums = <<>> THEN reg
    ELSE registerNestedEnums(
             PutEnum(reg, prefix \o <<Dot>> \o Tok(Head(enums)), Head(enums)),
             Tail(enums), prefix)

RECURSIVE RegisterTypesFromFile(_, _, _, _)
RegisterTypesFromFile(reg, messages, prefix, pkgName) ==
    IF messages = <<>> THEN reg
    ELSE LET message == Head(messages)
             fullName == FullName(prefix, pkgName, message.name)
             r1 == PutType(reg, fullName, message)
             r2 == IF Len(message.nestedType) > 0
                   THEN RegisterTypesFromFile(r1, message.nestedType, fullName, pkgName)
                   ELSE r1
             r3 == IF Len(message.enumType) > 0
                   THEN registerNestedEnums(r2, message.enumType, fullName)
                   ELSE r2
         IN  RegisterTypesFromFile(r3, Tail(messages), prefix, pkgName)

RECURSIVE RegisterEnumsFromFile(_, _, _, _)
RegisterEnumsFromFile(reg, enums, prefix, pkgName) ==
    IF enums = <<>> THEN reg
    ELSE RegisterEnumsFromFile(
             PutEnum(reg, FullName(prefix, pkgName, Head(enums)), Head(enums)),
             Tail(enums), prefix, pkgName)

\* the loop of NewTypeAnalyzer over the files, in order
RECURSIVE RegisterFiles(_, _)
RegisterFiles(reg, files) ==
    IF files = <<>> THEN reg
    ELSE LET protoFile == Head(files)
             r1 == RegisterTypesFromFile(reg, protoFile.messageType, <<>>, protoFile.package)
             r2 == RegisterEnumsFromFile(r1, protoFile.enumType, <<>>, protoFile.package)
         IN  RegisterFiles(r2, Tail(files))

\* ta.packageName: the package of the first file
PrimaryPackage(files) == IF Len(files) > 0 THEN files[1].package ELSE ""

\* ta.packageNames
PackageNames(files) == {files[i].package : i \in DOMAIN files}

-----------------------------------------------------------------------------
(* Name resolution.  The loop over ta.packageNames ranges over a Go map,    *)
(* whose iteration order is not fixed: every package that gives a          *)
(* registered candidate can be the first one met, so the resolvers are     *)
(* modelled by the set of names they can return.                           *)

\* a resolver that tries every known namespace before the primary one
ResolveTypeNameAnyNamespaceFirst(typeName) ==
    IF StartsWithDot(typeName) /\ typeName \in DOMAIN typeRegistry
    THEN {typeName}
    ELSE LET hits == {pkgName \in packageNames :
                         /\ pkgName # ""
                         /\ Qualified(pkgName, typeName) \in DOMAIN typeRegistry}
         IN  IF hits # {}
             THEN {Qualified(pkgName, typeName) : pkgName \in hits}
             ELSE IF (<<Dot>> \o typeName) \in DOMAIN typeRegistry
             THEN {<<Dot>> \o typeName}
             ELSE {typeName}

\* a resolver that never tries the namespaces other than the primary one
ResolveTypeNamePrimaryOnly(typeName) ==
    IF StartsWithDot(typeName) /\ typeName \in DOMAIN typeRegistry
    THEN {typeName}
    ELSE IF packageName # "" /\ Qualified(packageName, typeName) \in DOMAIN typeRegistry
    THEN {Qualified(packageName, typeName)}
    ELSE IF (<<Dot>> \o typeName) \in DOMAIN typeRegistry
    THEN {<<Dot>> \o typeName}
    ELSE {typeName}

ResolveTypeName(typeName) ==
    IF StartsWithDot(typeName) /\ typeName \in DOMAIN typeRegistry
    THEN {typeName}
    ELSE IF packageName # "" /\ Qualified(packageName, typeName) \in DOMAIN typeRegistry
    THEN {Qualified(packageName, typeName)}
    ELSE LET hits == {pkgName \in packageNames :
                         /\ pkgName # ""
                         /\ Qualified(pkgName, typeName) \in DOMAIN typeRegistry}
         IN  IF hits # {}
             THEN {Qualified(pkgName, typeName) : pkgName \in hits}
             ELSE IF (<<Dot>> \o typeName) \in DOMAIN typeRegistry
             THEN {<<Dot>> \o typeName}
             ELSE {typeName}

ResolveEnumName(enumName) ==
    IF StartsWithDot(enumName) /\ enumName \in DOMAIN enumRegistry
    THEN {enumName}
    ELSE IF packageName # "" /\ Qualified(packageName, enumName) \in DOMAIN enumRegistry
    THEN {Qualified(packageName, enumName)}
    ELSE LET hits == {pkgName \in packageNames :
                         /\ pkgName # ""
                         /\ Qualified(pkgName, enumName) \in DOMAIN enumRegistry}
         IN  IF hits # {}
             THEN {Qualified(pkgName, enumName) : pkgName \in hits}
             ELSE IF (<<Dot>> \o enumName) \in DOMAIN enumRegistry
             THEN {<<Dot>> \o enumName}
             ELSE {enumName}

-----------------------------------------------------------------------------
(* Membership queries *)

IsInputReachable(typeName) ==
    \/ typeName \in inputReachableTypes
    \/ /\ Len(typeName) > 0 /\ Head(typeName) # Dot
       /\ \/ /\ packageName # ""
             /\ Qualified(packageName, typeName) \in inputReachableTypes
          \/ \E pkgName \in packageNames :
                 /\ pkgName # "" /\ pkgName # packageName
                 /\ Qualified(pkgName, typeName) \in inputReachableTypes
          \/ (<<Dot>> \o typeName) \in inputReachableTypes
          \/ \E reachableType \in inputReachableTypes :
                 HasSuffix(reachableType, <<Dot>> \o typeName)

\* IsOutputReachable with its suffix scan over the input context's map
IsOutputReachableScansInput(typeName) ==
    \/ typeName \in outputReachableTypes
    \/ /\ Len(typeName) > 0 /\ Head(typeName) # Dot
       /\ \/ /\ packageName # ""
             /\ Qualified(packageName, typeName) \in outputReachableTypes
          \/ \E pkgName \in packageNames :
                 /\ pkgName # "" /\ pkgName # packageName
                 /\ Qualified(pkgName, typeName) \in outputReachableTypes
          \/ (<<Dot>> \o typeName) \in outputReachableTypes
          \/ \E reachableType \in inputReachableTypes :
                 HasSuffix(reachableType, <<Dot>> \o typeName)

IsOutputReachable(typeName) ==
    \/ typeName \in outputReachableTypes
    \/ /\ Len(typeName) > 0 /\ Head(typeName) # Dot
       /\ \/ /\ packageName # ""
             /\ Qualified(packageName, typeName) \in outputReachableTypes
          \/ \E pkgName \in packageNames :
                 /\ pkgName # "" /\ pkgName # packageName
                 /\ Qualified(pkgName, typeName) \in outputReachableTypes
          \/ (<<Dot>> \o typeName) \in outputReachableTypes
          \/ \E reachableType \in outputReachableTypes :
                 HasSuffix(reachableType, <<Dot>> \o typeName)

\* a query that answers true for every name
IsTypeReachableForEveryName(typeName) == TRUE

IsTypeReachable(typeName) ==
    LET either(n) == n \in inputReachableTypes \/ n \in outputReachableTypes
    IN  \/ either(typeName)
        \/ /\ Len(typeName) > 0 /\ Head(typeName) # Dot
           /\ \/ packageName # "" /\ either(Qualified(packageName, typeName))
              \/ \E pkgName \in packageNames :
                     /\ pkgName # "" /\ pkgName # packageName
                     /\ either(Qualified(pkgName, typeName))
              \/ either(<<Dot>> \o typeName)
              \/ \E reachableType \in inputReachableTypes :
                     HasSuffix(reachableType, <<Dot>> \o typeName)
              \/ \E reachableType \in outputReachableTypes :
                     HasSuffix(reachableType, <<Dot>> \o typeName)

IsEnumReachable(enumName) ==
    \/ enumName \in reachableEnums
    \/ /\ Len(enumName) > 0 /\ Head(enumName) # Dot
       /\ \/ /\ packageName # ""
             /\ Qualified(packageName, enumName) \in reachableEnums
          \/ \E pkgName \in packageNames :
                 /\ pkgName # "" /\ pkgName # packageName
                 /\ Qualified(pkgName, enumName) \in reachableEnums
          \/ (<<Dot>> \o enumName) \in reachableEnums
          \/ \E reachableEnum \in reachableEnums :
                 HasSuffix(reachableEnum, <<Dot>> \o enumName)

-----
(* Endpoint filter *)

\* a filter in which a wildcard target of the method admits nothing
shouldIncludeMethodWithoutMethodWildcard(cliTarget, methodOptions) ==
    IF methodOptions.skip THEN FALSE
    ELSE IF cliTarget = "all" \/ cliTarget = "*"
    THEN TRUE
    ELSE cliTarget = methodOptions.target

shouldIncludeMethod(cliTarget, methodOptions) ==
    IF methodOptions.skip THEN FALSE
    ELSE IF \/ cliTarget = "all" \/ cliTarget = "*"
            \/ methodOptions.target = "all" \/ methodOptions.target = "*"
    THEN TRUE
    ELSE cliTarget = methodOptions.target


-----------------------------------------------------------------------------
(* The descriptor sets the analyzer is built from *)

MethodTargets == {"", "admin", "client", "all", "*"}

CliTargets == {"", "admin", "all", "*"}

\* The arguments of the plugin that are tried: every target without
\* keep_case, and keep_case with the target that admits the most.
ArgsSet ==
    { [target |-> target, keepCase |-> FALSE] : target \in CliTargets }
    \cup { [target |-> "*", keepCase |-> TRUE] }

\* the tokens "[" and "]" of a gql type
LBracket == "["
RBracket == "]"

\* gql_input { type } overrides tried for the first method
GqlInputTypes ==
    { <<>>, <<"String">>, <<"Bool">>, <<"Float">>,
      <<LBracket, "Int", RBracket>>, <<LBracket, "bool", RBracket>>,
      <<"Empty">>, <<"UserFilter">>, <<LBracket, "UserFilter", RBracket>> }

\* The options records tried for the first method: every skip and target
\* with nothing else set, and, for a method every target admits, the kinds,
\* the gql_input overrides and the gql_output overrides.
MethodOptionsSet ==
    { MethodOptions(skip, target, "", NoGqlInput, <<>>) :
          skip \in BOOLEAN, target \in MethodTargets }
    \cup { MethodOptions(FALSE, "*", kind, NoGqlInput, <<>>) :
              kind \in {"query", "mutation", "Mutation", "subscription"} }
    \cup { MethodOptions(FALSE, "*", "", GqlInput("id", type), <<>>) :
              type \in GqlInputTypes }
    \cup { MethodOptions(FALSE, "*", "", NoGqlInput, gqlOutput) :
              gqlOutput \in {<<LBracket, "User", RBracket>>, <<"user">>} }

BaseOptions == MethodOptions(FALSE, "", "", NoGqlInput, <<>>)

\* name of a top-level declaration of a package
Top(pkg, name) == FullName(<<>>, pkg, name)

\* fields tried for the request message of the service file
FieldChoices ==
    { MessageField(<<"Node">>),
      MessageField(<<"Shared">>),
      EnumField(<<"Color">>),
      EnumField(<<"Nope">>) }

RECURSIVE SeqsUpTo(_, _)
SeqsUpTo(S, n) ==
    IF n = 0 THEN {<<>>}
    ELSE LET shorter == SeqsUpTo(S, n - 1)
         IN  shorter \cup {Append(q, x) : q \in shorter, x \in S}

BaseReqFields ==
    << MessageField(Qualified("common", <<"Shared">>)), EnumField(<<"Status">>) >>

\* The services of the service file; pkg is its package.
SvcServices(pkg, firstOptions) ==
    << [method |->
          << MethodWith("GetNode", Top(pkg, "Req"), Top(pkg, "Resp"), firstOptions),
             MethodWith("Admin", Top(pkg, "Empty"), Qualified("common", <<"Pair">>),
                        MethodOptions(FALSE, "admin", "mutation", NoGqlInput, <<>>)),
             Method("Skipped", Qualified("extra", <<"Only">>),
                    Qualified("extra", <<"Only">>), TRUE, "*") >>] >>

\* The file that declares the services; pkg is its package.
SvcFile(pkg, reqFields) ==
    File(pkg,
         << Msg("Req", reqFields, <<>>, <<>>),
            Msg("Resp", << MessageField(<<"Node">>),
                           Named(ScalarField, "API_KEY", "true") >>, <<>>, <<>>),
            Msg("Node",
                << EnumField(Top(pkg, "Node") \o <<Dot, "Priority">>),
                   MessageField(Top(pkg, "Node") \o <<Dot, "Inner">>) >>,
                << Msg("Inner", << Named(MessageField(Top(pkg, "Node")), "outer_node", "false") >>,
                       <<>>, <<"Kind">>) >>,
                <<"Priority">>),
            Msg("Empty", <<>>, <<>>, <<>>) >>,
         <<"Status">>,
         SvcServices(pkg, BaseOptions))

CommonFile ==
    File("common",
         << Msg("Shared", << ScalarField >>, <<>>, <<>>),
            Msg("Node", << EnumField(<<"Color">>) >>, <<>>, <<>>),
            Msg("Pair",
                << MessageField(Qualified("common", <<"Pair">>)),
                   MessageField(<<"Shared">>) >>, <<>>, <<>>) >>,
         <<"Color">>,
         << [method |->
               << Method("Ping", Qualified("common", <<"Shared">>),
                         Qualified("common", <<"Pair">>), FALSE, "client"),
                  Method("Any", <<"Shared">>, <<>>, FALSE, "all") >>] >>)

ExtraFile ==
    File("extra",
         << Msg("Shared", << MessageField(Qualified("extra", <<"Only">>)) >>, <<>>, <<>>),
            Msg("Only",
                << EnumField(Qualified("extra", <<"Missing">>)),
                   MessageField(Qualified("extra", <<"Ghost">>)) >>, <<>>, <<>>),
            Msg("Inner", << MessageField(<<"Pair">>) >>, <<>>, <<>>),
            Msg("Group", <<>>,
                << Msg("Item",
                       << EnumField(Qualified("extra", <<"Group", Dot, "Level">>)) >>,
                       <<>>, <<>>) >>,
                <<"Level">>) >>,
         <<>>,
         << [method |-> <<>>],
            [method |->
               << Method("Borrow", Qualified("common", <<"Pair">>),
                         Qualified("extra", <<"Inner">>), FALSE, "all"),
                  Method("List", Qualified("extra", <<"Group">>),
                         Qualified("extra", <<"Group">>), FALSE, "all") >>] >>)

\* The file lists given to NewTypeAnalyzer: four orders of the files, and
\* the request message with every short field list.
ProtoFileLists ==
    { << SvcFile("svc", BaseReqFields), CommonFile, ExtraFile >>,
      << CommonFile, SvcFile("svc", BaseReqFields), ExtraFile >>,
      << SvcFile("", BaseReqFields), CommonFile >>,
      << ExtraFile, CommonFile, SvcFile("svc", BaseReqFields) >> }
    \cup { << SvcFile("svc", fields), CommonFile, ExtraFile >> :
              fields \in SeqsUpTo(FieldChoices, MaxFields) }

\* Names handed to the Mark* methods by a caller: two fully qualified
\* names as protoc writes them, and bare names.
CallerNames ==
    { name \in DOMAIN typeRegistry : name[Len(name)] \in {"Req", "Only"} }
    \cup { <<"Node">>, <<"Shared">>, <<"Inner">>, <<"Pair">>, <<"Ghost">> }

\* The files CreateSchema can be called with: those of the request, the
\* first method of the service file with every options record.
UnitFiles ==
    { [SvcFile(pkg, typeRegistry[Top(pkg, "Req")].field)
          EXCEPT !.service = SvcServices(pkg, opts)] :
          pkg \in packageNames \cap {"svc", ""}, opts \in MethodOptionsSet }
    \cup { file \in {CommonFile, ExtraFile} : file.package \in packageNames }

-----------------------------------------------------------------------------
(* State after NewTypeAnalyzer *)

NoResolve == [ref |-> <<>>, name |-> <<>>, called |-> FALSE]
NoFilter == [cliTarget |-> "", options |-> BaseOptions, result |-> FALSE,
             called |-> FALSE]
NoRpc == [pc |-> "none", services |-> <<>>, target |-> "", si |-> 0, mi |-> 0]
NoRepeat == [phase |-> "off"]

\* new(Schema), with the arguments of the run
NewSchema(protoFile, args) ==
    [pc |-> "none", protoFile |-> protoFile, args |-> args,
     objectTypes |-> <<>>, enums |-> <<>>, inputTypes |-> <<>>,
     mutations |-> <<>>, queries |-> <<>>]

NoSchema == NewSchema(File("", <<>>, <<>>, <<>>), [target |-> "", keepCase |-> FALSE])

\* the single-context analyzer as its NewTypeAnalyzer leaves it; its
\* registries are filled by the same code as those of the dual-context one
NewSingle == [pc |-> "none", reachableTypes |-> {}, reachableEnums |-> {},
              inProgress |-> {}]

\* no reordered run has been made
NoPermuted == [pc |-> "none", input |-> {}, output |-> {}, enums |-> {}]

\* a plugin that has built no schema
NoPlugin == [pc |-> "none", schema |-> <<>>, combinedSchema |-> NoSchema]

NewTypeAnalyzer(files) ==
    LET reg == RegisterFiles(EmptyRegistry, files)
    IN  /\ typeRegistry = reg.types
        /\ enumRegistry = reg.enums
        /\ packageName = PrimaryPackage(files)
        /\ packageNames = PackageNames(files)
        /\ inputReachableTypes = {}
        /\ outputReachableTypes = {}
        /\ reachableEnums = {}
        /\ inProgressInput = {}
        /\ inProgressOutput = {}

Init ==
    /\ \E files \in ProtoFileLists : NewTypeAnalyzer(files)
    /\ stack = <<>>
    /\ rpc = NoRpc
    /\ resolved = NoResolve
    /\ included = NoFilter
    /\ calls = 0
    /\ repeat = NoRepeat
    /\ schema = NoSchema
    /\ plugin = NoPlugin
    /\ single = NewSingle
    /\ permuted = NoPermuted

registries == <<typeRegistry, enumRegistry, packageName, packageNames>>

Idle == stack = <<>>

\* the three sets a caller can observe
Sets == [input |-> inputReachableTypes, output |-> outputReachableTypes,
         enums |-> reachableEnums]

-----------------------------------------------------------------------------
(* The Mark* methods.  A call is followed step by step: the entry (resolve, *)
(* guards, marking), one step per loop iteration, and the return.          *)

Contexts == {"input", "output", "both"}

\* the guard of MarkTypeReachableAsInput reading the output context's maps
SkipAsInputReadsOutput(resolvedName) ==
    resolvedName \in outputReachableTypes \/ resolvedName \in inProgressOutput

\* MarkTypeReachableAsInput: "already reachable or being processed"
SkipAsInput(resolvedName) ==
    resolvedName \in inputReachableTypes \/ resolvedName \in inProgressInput

\* the guard of MarkTypeReachableAsOutput reading the input context's maps
SkipAsOutputReadsInput(resolvedName) ==
    resolvedName \in inputReachableTypes \/ resolvedName \in inProgressInput

\* MarkTypeReachableAsOutput: "already reachable or being processed"
SkipAsOutput(resolvedName) ==
    resolvedName \in outputReachableTypes \/ resolvedName \in inProgressOutput

\* MarkTypeReachable: "already reachable in both contexts"
SkipBoth(resolvedName) ==
    \/ resolvedName \in inputReachableTypes /\ resolvedName \in outputReachableTypes
    \/ resolvedName \in inProgressInput /\ resolvedName \in inProgressOutput

Skip(ctx, resolvedName) ==
    CASE ctx = "input" -> SkipAsInput(resolvedName)
      [] ctx = "output" -> SkipAsOutput(resolvedName)
      [] ctx = "both" -> SkipBoth(resolvedName)

\* an input-context mark that is also put in the output context
BeginAsInputMarksOutput(resolvedName) ==
    /\ inProgressInput' = inProgressInput \cup {resolvedName}
    /\ inputReachableTypes' = inputReachableTypes \cup {resolvedName}
    /\ outputReachableTypes' = outputReachableTypes \cup {resolvedName}
    /\ UNCHANGED inProgressOutput

\* MarkTypeReachableAsInput: in-progress and reachable marks
BeginAsInput(resolvedName) ==
    /\ inProgressInput' = inProgressInput \cup {resolvedName}
    /\ inputReachableTypes' = inputReachableTypes \cup {resolvedName}
    /\ UNCHANGED <<inProgressOutput, outputReachableTypes>>

\* MarkTypeReachableAsOutput: in-progress and reachable marks
BeginAsOutput(resolvedName) ==
    /\ inProgressOutput' = inProgressOutput \cup {resolvedName}
    /\ outputReachableTypes' = outputReachableTypes \cup {resolvedName}
    /\ UNCHANGED <<inProgressInput, inputReachableTypes>>

\* MarkTypeReachable: in-progress and reachable marks of both contexts
BeginBoth(resolvedName) ==
    /\ inProgressInput' = inProgressInput \cup {resolvedName}
    /\ inProgressOutput' = inProgressOutput \cup {resolvedName}
    /\ inputReachableTypes' = inputReachableTypes \cup {resolvedName}
    /\ outputReachableTypes' = outputReachableTypes \cup {resolvedName}

Begin(ctx, resolvedName) ==
    CASE ctx = "input" -> BeginAsInput(resolvedName)
      [] ctx = "output" -> BeginAsOutput(resolvedName)
      [] ctx = "both" -> BeginBoth(resolvedName)

\* a return that also takes the name out of the reachable set
EndAsInputUnmarks(resolvedName) ==
    /\ inProgressInput' = inProgressInput \ {resolvedName}
    /\ inputReachableTypes' = inputReachableTypes \ {resolvedName}
    /\ UNCHANGED <<inProgressOutput, outputReachableTypes>>

\* delete(ta.inProgressInput, resolvedName)
EndAsInput(resolvedName) ==
    /\ inProgressInput' = inProgressInput \ {resolvedName}
    /\ UNCHANGED <<inProgressOutput, inputReachableTypes, outputReachableTypes>>

\* delete(ta.inProgressOutput, resolvedName)
EndAsOutput(resolvedName) ==
    /\ inProgressOutput' = inProgressOutput \ {resolvedName}
    /\ UNCHANGED <<inProgressInput, inputReachableTypes, outputReachableTypes>>

\* a return that leaves the in-progress mark of the output context
EndBothClearsInputOnly(resolvedName) ==
    /\ inProgressInput' = inProgressInput \ {resolvedName}
    /\ UNCHANGED <<inProgressOutput, inputReachableTypes, outputReachableTypes>>

\* delete(ta.inProgressInput, ...); delete(ta.inProgressOutput, ...)
EndBoth(resolvedName) ==
    /\ inProgressInput' = inProgressInput \ {resolvedName}
    /\ inProgressOutput' = inProgressOutput \ {resolvedName}
    /\ UNCHANGED <<inputReachableTypes, outputReachableTypes>>

End(ctx, resolvedName) ==
    CASE ctx = "input" -> EndAsInput(resolvedName)
      [] ctx = "output" -> EndAsOutput(resolvedName)
      [] ctx = "both" -> EndBoth(resolvedName)

Frame(ctx, resolvedName) == [ctx |-> ctx, name |-> resolvedName, pc |-> "nested", i |-> 1]

marks == <<inputReachableTypes, outputReachableTypes, inProgressInput, inProgressOutput>>

\* Entry of a Mark* call made with typeName while the activations below it
\* are `callers`: resolve, return at once when the guards say so, else mark
\* the name and start on its descriptor.
Enter(ctx, typeName, callers) ==
    \E resolvedName \in ResolveTypeName(typeName) :
        /\ resolved' = [ref |-> typeName, name |-> resolvedName, called |-> TRUE]
        /\ IF Skip(ctx, resolvedName) \/ resolvedName \notin DOMAIN typeRegistry
           THEN /\ stack' = callers
                /\ UNCHANGED marks
           ELSE /\ Len(callers) < MaxDepth
                /\ Begin(ctx, resolvedName)
                /\ stack' = Append(callers, Frame(ctx, resolvedName))

top == stack[Len(stack)]

\* the running activations with the loop index of the innermost advanced
Advanced == [stack EXCEPT ![Len(stack)].i = @ + 1]

\* for _, nested := range descriptor.NestedType { Mark*(resolvedName + "." + name) }
StepNested ==
    /\ stack # <<>>
    /\ top.pc = "nested"
    /\ top.i <= Len(typeRegistry[top.name].nestedType)
    /\ LET nested == typeRegistry[top.name].nestedType[top.i]
           nestedName == top.name \o <<Dot>> \o Tok(nested.name)
       IN  Enter(top.ctx, nestedName, Advanced)
    /\ UNCHANGED <<schema, plugin, single, permuted, registries, reachableEnums, rpc, included, calls, repeat>>

\* a nested-enum loop that adds nothing
NoNestedEnumNames(resolvedName) == {}

\* the names added by: for _, enum := range descriptor.EnumType
NestedEnumNames(resolvedName) ==
    LET enumType == typeRegistry[resolvedName].enumType
    IN  {resolvedName \o <<Dot>> \o Tok(enumType[k]) : k \in DOMAIN enumType}

\* end of the nested loop: the nested enums are marked, the field loop starts
StepEnums ==
    /\ stack # <<>>
    /\ top.pc = "nested"
    /\ top.i > Len(typeRegistry[top.name].nestedType)
    /\ reachableEnums' = reachableEnums \cup NestedEnumNames(top.name)
    /\ stack' = [stack EXCEPT ![Len(stack)].pc = "fields", ![Len(stack)].i = 1]
    /\ resolved' = NoResolve
    /\ UNCHANGED <<schema, plugin, single, permuted, registries, marks, rpc, included, calls, repeat>>

\* an enum branch that adds the reference as the field writes it
FieldEnumNamesUnresolved(field) == {field.typeName}

\* the name added for an enum-kind field: ResolveEnumName(field.GetTypeName())
FieldEnumNames(field) == ResolveEnumName(field.typeName)

\* one iteration of: for _, field := range descriptor.Field
StepField ==
    /\ stack # <<>>
    /\ top.pc = "fields"
    /\ top.i <= Len(typeRegistry[top.name].field)
    /\ LET field == typeRegistry[top.name].field[top.i]
       IN  CASE field.type = "message" ->
                   /\ Enter(top.ctx, field.typeName, Advanced)
                   /\ UNCHANGED reachableEnums
             [] field.type = "enum" ->
                   /\ \E resolvedEnumName \in FieldEnumNames(field) :
                          reachableEnums' = reachableEnums \cup {resolvedEnumName}
                   /\ stack' = Advanced
                   /\ resolved' = NoResolve
                   /\ UNCHANGED marks
             [] OTHER ->
                   /\ stack' = Advanced
                   /\ resolved' = NoResolve
                   /\ UNCHANGED <<marks, reachableEnums>>
    /\ UNCHANGED <<schema, plugin, single, permuted, registries, rpc, included, calls, repeat>>

\* end of the field loop: the in-progress flag is cleared and the call returns
StepReturn ==
    /\ stack # <<>>
    /\ top.pc = "fields"
    /\ top.i > Len(typeRegistry[top.name].field)
    /\ End(top.ctx, top.name)
    /\ stack' = SubSeq(stack, 1, Len(stack) - 1)
    /\ resolved' = NoResolve
    /\ UNCHANGED <<schema, plugin, single, permuted, registries, reachableEnums, rpc, included, calls, repeat>>

\* A caller may make a call and then the same call again.
CallerCalls(ctx, typeName, again) ==
    /\ Idle
    /\ rpc.pc = "none"
    /\ repeat.phase # "first"
    /\ calls < MaxCalls
    /\ calls' = calls + 1
    /\ repeat' = IF again THEN [phase |-> "first", ctx |-> ctx, ref |-> typeName]
                 ELSE NoRepeat
    /\ Enter(ctx, typeName, <<>>)
    /\ UNCHANGED <<schema, plugin, single, permuted, registries, reachableEnums, rpc, included>>

MarkTypeReachableAsInput ==
    \E typeName \in CallerNames, again \in BOOLEAN : CallerCalls("input", typeName, again)

MarkTypeReachableAsOutput ==
    \E typeName \in CallerNames, again \in BOOLEAN : CallerCalls("output", typeName, again)

MarkTypeReachable ==
    \E typeName \in CallerNames, again \in BOOLEAN : CallerCalls("both", typeName, again)

\* the second of two calls in a row with the same name
MarkAgain ==
    /\ Idle
    /\ repeat.phase = "first"
    /\ repeat' = [phase |-> "second", ctx |-> repeat.ctx, ref |-> repeat.ref,
                  before |-> Sets]
    /\ Enter(repeat.ctx, repeat.ref, <<>>)
    /\ UNCHANGED <<schema, plugin, single, permuted, registries, reachableEnums, rpc, included, calls>>

\* the both-context MarkTypeReachable called on an analyzer whose one call
\* so far was MarkTypeReachableAsInput or MarkTypeReachableAsOutput with the
\* same name; it is the caller's last call
MarkTypeReachableAfterwards ==
    /\ Idle
    /\ calls = 1
    /\ calls' = MaxCalls
    /\ repeat.phase = "first"
    /\ repeat.ctx # "both"
    /\ repeat' = [phase |-> "both", ctx |-> repeat.ctx, ref |-> repeat.ref,
                  before |-> Sets]
    /\ Enter("both", repeat.ref, <<>>)
    /\ UNCHANGED <<schema, plugin, single, permuted, registries, reachableEnums, rpc, included>>

-----------------------------------------------------------------------------
(* CreateSchema.  It builds the analyzer (the initial state), calls         *)
(* AnalyzeRPCDependencies with the services of its file and the target of  *)
(* the run, and then makeObjectTypes, Enums and AddQueriesAndMutations.     *)

AnalyzeRPCDependencies ==
    /\ Idle
    /\ rpc.pc = "none"
    /\ calls = 0
    /\ schema.pc = "none"
    /\ \E protoFile \in UnitFiles, args \in ArgsSet :
           /\ schema' = [NewSchema(protoFile, args) EXCEPT !.pc = "analyze"]
           /\ rpc' = [pc |-> "method", services |-> protoFile.service,
                      target |-> args.target, si |-> 1, mi |-> 1]
    /\ resolved' = NoResolve
    /\ UNCHANGED <<plugin, single, permuted, registries, marks, reachableEnums, stack, included, calls, repeat>>

\* top of the loop body: the filter, then MarkTypeReachableAsInput(inputType)
RpcMethod ==
    /\ Idle
    /\ rpc.pc = "method"
    /\ IF rpc.si > Len(rpc.services)
       THEN /\ rpc' = [rpc EXCEPT !.pc = "done"]
            /\ resolved' = NoResolve
            /\ UNCHANGED <<marks, stack, included>>
       ELSE IF rpc.mi > Len(rpc.services[rpc.si].method)
       THEN /\ rpc' = [rpc EXCEPT !.si = @ + 1, !.mi = 1]
            /\ resolved' = NoResolve
            /\ UNCHANGED <<marks, stack, included>>
       ELSE LET method == rpc.services[rpc.si].method[rpc.mi]
                result == shouldIncludeMethod(rpc.target, method.options)
            IN  /\ included' = [cliTarget |-> rpc.target, options |-> method.options,
                                result |-> result, called |-> TRUE]
                /\ IF ~result
                   THEN /\ rpc' = [rpc EXCEPT !.mi = @ + 1]
                        /\ resolved' = NoResolve
                        /\ UNCHANGED <<marks, stack>>
                   ELSE /\ rpc' = [rpc EXCEPT !.pc = "output"]
                        /\ IF method.inputType # <<>>
                           THEN Enter("input", method.inputType, <<>>)
                           ELSE /\ resolved' = NoResolve
                                /\ UNCHANGED <<marks, stack>>
    /\ UNCHANGED <<schema, plugin, single, permuted, registries, reachableEnums, calls, repeat>>

\* rest of the loop body: MarkTypeReachableAsOutput(outputType)
RpcOutput ==
    /\ Idle
    /\ rpc.pc = "output"
    /\ LET method == rpc.services[rpc.si].method[rpc.mi]
       IN  IF method.outputType # <<>>
           THEN Enter("output", method.outputType, <<>>)
           ELSE /\ resolved' = NoResolve
                /\ UNCHANGED <<marks, stack>>
    /\ rpc' = [rpc EXCEPT !.pc = "method", !.mi = @ + 1]
    /\ UNCHANGED <<schema, plugin, single, permuted, registries, reachableEnums, included, calls, repeat>>

-----------------------------------------------------------------------------
(* Projection of one file: makeObjectTypes, Enums, AddQueriesAndMutations  *)

\* the methods of a service list, in declaration order
RECURSIVE MethodsOf(_)
MethodsOf(svcs) ==
    IF svcs = <<>> THEN <<>> ELSE Head(svcs).method \o MethodsOf(Tail(svcs))

\* protoFile.Package of a file that has no package statement is nil; File
\* writes it as the empty package.  A method that has no input or output
\* type has a nil InputType or OutputType, written <<>>.
Nil == ""

\* the value of an expression that dereferences a nil pointer
Panic == <<"panic: nil pointer dereference">>

\* utils.CamelCase on the field names of the files
CamelCase(name) ==
    CASE name = "first_name" -> "firstName"
      [] name = "child_node" -> "childNode"
      [] name = "outer_node" -> "outerNode"
      [] name = "API_KEY" -> "apiKey"
      [] OTHER -> name

\* the first letter of an identifier, capitalized
Upper(tok) ==
    CASE tok = "string" -> "String"
      [] tok = "bool" -> "Bool"
      [] tok = "empty" -> "Empty"
      [] tok = "user" -> "User"
      [] OTHER -> tok

\* utils.UppercaseFirst
UppercaseFirst(str) == IF str = <<>> THEN <<>> ELSE <<Upper(Head(str))>> \o Tail(str)

\* strings.TrimPrefix
TrimPrefix(str, prefix) ==
    IF Len(str) >= Len(prefix) /\ SubSeq(str, 1, Len(prefix)) = prefix
    THEN SubSeq(str, Len(prefix) + 1, Len(str))
    ELSE str

\* string(syntax.Input)
Input == "input"

keepCase(field) == IF field.keepCase # "unset" THEN field.keepCase = "true" ELSE FALSE

generateFields(fields) ==
    [i \in DOMAIN fields |->
        [name |-> IF ~keepCase(fields[i]) THEN CamelCase(fields[i].name)
                  ELSE fields[i].name]]

\* the loop over message.EnumType; an entry carries the name of the enum and
\* the declaration it was built from
RECURSIVE embeddedEnums(_, _)
embeddedEnums(enums, fullName) ==
    IF enums = <<>> THEN <<>>
    ELSE LET enumFullName == fullName \o <<Dot>> \o Tok(Head(enums))
         IN  (IF IsEnumReachable(enumFullName)
              THEN << [name |-> Head(enums), enum |-> enumFullName] >>
              ELSE <<>>) \o embeddedEnums(Tail(enums), fullName)

\* sch is the schema so far; an object type carries the name of the message,
\* its fields and the message it was built from
RECURSIVE makeObjectTypesWithPrefix(_, _, _)
makeObjectTypesWithPrefix(sch, messages, prefix) ==
    IF messages = <<>> THEN sch
    ELSE LET message == Head(messages)
             fullName == FullName(prefix, sch.protoFile.package, message.name)
             after ==
                 IF ~IsTypeReachable(fullName) THEN sch
                 ELSE IF Len(message.field) > 0
                 THEN LET objectType == [name |-> message.name,
                                         fields |-> generateFields(message.field),
                                         message |-> fullName]
                          nested == makeObjectTypesWithPrefix(sch, message.nestedType, fullName)
                      IN  [nested EXCEPT
                              !.enums = @ \o embeddedEnums(message.enumType, fullName),
                              !.objectTypes = Append(@, objectType)]
                 ELSE sch
         IN  makeObjectTypesWithPrefix(after, Tail(messages), prefix)

\* the loop of Enums over protoFile.EnumType
RECURSIVE fileEnums(_, _)
fileEnums(enums, pkgName) ==
    IF enums = <<>> THEN <<>>
    ELSE LET fullName == FullName(<<>>, pkgName, Head(enums))
         IN  (IF IsEnumReachable(fullName)
              THEN << [name |-> Head(enums), enum |-> fullName] >>
              ELSE <<>>) \o fileEnums(Tail(enums), pkgName)

getGqlOutputType(outputType, mo, pkgName) ==
    IF outputType # <<>> THEN UppercaseFirst(outputType)
    ELSE IF mo = <<>> \/ pkgName = Nil THEN Panic
    ELSE TrimPrefix(mo, Qualified(pkgName, <<>>))

isEmpty(t) == t = <<"Empty">>

isArray(t, length) == t.type[1] = LBracket /\ t.type[length] = RBracket

isPrimitive(t) == t \in {<<"String">>, <<"Boolean">>, <<"Bool">>, <<"Int">>, <<"Float">>}

parseType(input) ==
    IF input.type = <<>> THEN input
    ELSE LET cased ==
                 IF isArray(input, Len(input.type))
                 THEN [input EXCEPT !.array = TRUE,
                                    !.type = UppercaseFirst(SubSeq(@, 2, Len(@) - 1))]
                 ELSE [input EXCEPT !.type = UppercaseFirst(@)]
         IN  IF isPrimitive(cased.type)
             THEN [cased EXCEPT !.primitive = TRUE,
                                !.type = IF @ = <<"Bool">> THEN <<"Boolean">> ELSE @]
             ELSE IF isEmpty(cased.type) THEN [cased EXCEPT !.empty = TRUE]
             ELSE cased

getGqlInputParam(input) == IF input.param # "" THEN input.param ELSE Input

getGqlInputType(input, mi, pkgName) ==
    LET derived == IF mi = <<>> \/ pkgName = Nil THEN Panic
                   ELSE <<"I">> \o TrimPrefix(mi, Qualified(pkgName, <<>>))
        typed ==
            IF ~input.set THEN GqlInput("", derived)
            ELSE IF input.type # <<>>
            THEN LET parsed == parseType(input)
                 IN  IF ~parsed.primitive /\ ~parsed.empty
                     THEN [parsed EXCEPT !.type = <<"I">> \o @]
                     ELSE IF parsed.array
                     THEN [parsed EXCEPT !.type = <<LBracket>> \o @ \o <<RBracket>>]
                     ELSE [parsed EXCEPT !.type = derived]
            ELSE [input EXCEPT !.type = derived]
    IN  [typed EXCEPT !.param = getGqlInputParam(typed)]

checkCompilerTarget(compilerTarget, methodOptions) ==
    IF compilerTarget = "all" \/ compilerTarget = "*" THEN TRUE
    ELSE compilerTarget = methodOptions.target

\* a filter that does not look at the skip option
skipMethodIgnoringSkip(compilerTarget, methodOptions) ==
    IF checkCompilerTarget(compilerTarget, methodOptions) THEN FALSE
    ELSE IF methodOptions.target = "all" \/ methodOptions.target = "*" THEN FALSE
    ELSE TRUE

skipMethod(compilerTarget, methodOptions) ==
    IF methodOptions.skip THEN TRUE
    ELSE IF checkCompilerTarget(compilerTarget, methodOptions) THEN FALSE
    ELSE IF methodOptions.target = "all" \/ methodOptions.target = "*" THEN FALSE
    ELSE TRUE

\* the two loops of AddQueriesAndMutations over the methods that are left
RECURSIVE addQueriesAndMutations(_, _)
addQueriesAndMutations(sch, methods) ==
    IF methods = <<>> THEN sch
    ELSE LET method == Head(methods)
             methodOptions == method.options
             entry == [name |-> method.name,
                       input |-> getGqlInputType(methodOptions.gqlInput, method.inputType,
                                                 sch.protoFile.package),
                       payload |-> getGqlOutputType(methodOptions.gqlOutput, method.outputType,
                                                    sch.protoFile.package)]
         IN  IF skipMethod(sch.args.target, methodOptions)
             THEN addQueriesAndMutations(sch, Tail(methods))
             ELSE IF entry.input.type = Panic \/ entry.payload = Panic
             THEN [sch EXCEPT !.pc = "panic"]
             ELSE IF methodOptions.kind = "mutation" \/ methodOptions.kind = "Mutation"
             THEN addQueriesAndMutations([sch EXCEPT !.mutations = Append(@, entry)],
                                         Tail(methods))
             ELSE addQueriesAndMutations([sch EXCEPT !.queries = Append(@, entry)],
                                         Tail(methods))

\* the analyzer is left as AnalyzeRPCDependencies built it
Projecting(pc) ==
    /\ Idle
    /\ rpc.pc = "done"
    /\ schema.pc = pc
    /\ resolved' = NoResolve
    /\ UNCHANGED <<plugin, single, permuted, registries, marks, reachableEnums, stack, rpc, included,
                   calls, repeat>>

makeObjectTypes ==
    /\ Projecting("analyze")
    /\ schema' = [makeObjectTypesWithPrefix(schema, schema.protoFile.messageType, <<>>)
                     EXCEPT !.pc = "enums"]

Enums ==
    /\ Projecting("enums")
    /\ schema' = [schema EXCEPT
                     !.pc = "entries",
                     !.enums = @ \o fileEnums(schema.protoFile.enumType,
                                              schema.protoFile.package)]

AddQueriesAndMutations ==
    /\ Projecting("entries")
    /\ schema' = addQueriesAndMutations([schema EXCEPT !.pc = "done"],
                                        MethodsOf(schema.protoFile.service))

-----------------------------------------------------------------------------
(* The single-context variant of the analyzer (internal/analyzer), which   *)
(* keeps one set reachableTypes and one map inProgress.  Its registries    *)
(* and its ResolveTypeName and ResolveEnumName are the same text as those  *)
(* of the dual-context variant.  A call is modelled by the set of the      *)
(* analyzer states it can return with, one for every way the resolutions   *)
(* can go.  It is run on the files, services and target of CreateSchema    *)
(* once CreateSchema is over.                                              *)

RECURSIVE SingleMarkTypeReachable(_, _)
RECURSIVE SingleNested(_, _, _)
RECURSIVE SingleFields(_, _, _)

\* for _, nested := range descriptor.NestedType, from the i-th on
SingleNested(ta, resolvedName, i) ==
    IF i > Len(typeRegistry[resolvedName].nestedType) THEN {ta}
    ELSE LET nested == typeRegistry[resolvedName].nestedType[i]
             nestedName == resolvedName \o <<Dot>> \o Tok(nested.name)
         IN  UNION {SingleNested(after, resolvedName, i + 1) :
                        after \in SingleMarkTypeReachable(ta, nestedName)}

\* for _, field := range descriptor.Field, from the i-th on
SingleFields(ta, resolvedName, i) ==
    IF i > Len(typeRegistry[resolvedName].field) THEN {ta}
    ELSE LET field == typeRegistry[resolvedName].field[i]
             afters ==
                 CASE field.type = "message" -> SingleMarkTypeReachable(ta, field.typeName)
                   [] field.type = "enum" ->
                          {[ta EXCEPT !.reachableEnums = @ \cup {resolvedEnumName}] :
                              resolvedEnumName \in ResolveEnumName(field.typeName)}
                   [] OTHER -> {ta}
         IN  UNION {SingleFields(after, resolvedName, i + 1) : after \in afters}

SingleMarkTypeReachable(ta, typeName) ==
    UNION {
        IF \/ resolvedName \in ta.reachableTypes
           \/ resolvedName \in ta.inProgress
           \/ resolvedName \notin DOMAIN typeRegistry
        THEN {ta}
        ELSE LET marked == [ta EXCEPT !.inProgress = @ \cup {resolvedName},
                                      !.reachableTypes = @ \cup {resolvedName}]
                 withEnums(t) == [t EXCEPT !.reachableEnums =
                                               @ \cup NestedEnumNames(resolvedName)]
                 afterFields ==
                     UNION {SingleFields(withEnums(t), resolvedName, 1) :
                                t \in SingleNested(marked, resolvedName, 1)}
             IN  {[t EXCEPT !.inProgress = @ \ {resolvedName}] : t \in afterFields}
        : resolvedName \in ResolveTypeName(typeName) }

\* the loops of the single-context AnalyzeRPCDependencies over the methods
RECURSIVE SingleMethods(_, _, _)
SingleMethods(ta, methods, target) ==
    IF methods = <<>> THEN {ta}
    ELSE LET method == Head(methods)
             afterInput ==
                 IF method.inputType # <<>>
                 THEN SingleMarkTypeReachable(ta, method.inputType)
                 ELSE {ta}
             afterOutput ==
                 UNION {IF method.outputType # <<>>
                        THEN SingleMarkTypeReachable(t, method.outputType)
                        ELSE {t} : t \in afterInput}
         IN  IF ~shouldIncludeMethod(target, method.options)
             THEN SingleMethods(ta, Tail(methods), target)
             ELSE UNION {SingleMethods(t, Tail(methods), target) : t \in afterOutput}

SingleAnalyzeRPCDependencies ==
    /\ schema.pc \in {"done", "panic"}
    /\ single.pc = "none"
    /\ permuted.pc = "none"
    /\ \E ta \in SingleMethods(single, MethodsOf(schema.protoFile.service),
                               schema.args.target) :
           single' = [ta EXCEPT !.pc = "done"]
    /\ UNCHANGED <<schema, plugin, permuted, registries, marks, reachableEnums, stack, rpc,
                   resolved, included, calls, repeat>>

-----------------------------------------------------------------------------
(* A second run of the dual-context analysis on a fresh analyzer over the  *)
(* same files, given the MarkTypeReachableAsInput and                      *)
(* MarkTypeReachableAsOutput calls of AnalyzeRPCDependencies in another    *)
(* order.  A call is modelled by the set of the analyzer states it can     *)
(* return with, one for every way the resolutions can go.  A finished      *)
(* CreateSchema is followed by this run or by the single-context one.      *)

\* the reachability state of a freshly built dual-context analyzer
FreshAnalyzer ==
    [input |-> {}, output |-> {}, enums |-> {}, inProgressInput |-> {},
     inProgressOutput |-> {}]

\* the guard of MarkTypeReachableAsInput, resp. MarkTypeReachableAsOutput
SeenIn(ctx, an, resolvedName) ==
    IF ctx = "input"
    THEN resolvedName \in an.input \/ resolvedName \in an.inProgressInput
    ELSE resolvedName \in an.output \/ resolvedName \in an.inProgressOutput

\* the in-progress and reachable marks of the context
BeginIn(ctx, an, resolvedName) ==
    IF ctx = "input"
    THEN [an EXCEPT !.inProgressInput = @ \cup {resolvedName},
                    !.input = @ \cup {resolvedName}]
    ELSE [an EXCEPT !.inProgressOutput = @ \cup {resolvedName},
                    !.output = @ \cup {resolvedName}]

\* delete(ta.inProgressInput, resolvedName), resp. inProgressOutput
EndIn(ctx, an, resolvedName) ==
    IF ctx = "input"
    THEN [an EXCEPT !.inProgressInput = @ \ {resolvedName}]
    ELSE [an EXCEPT !.inProgressOutput = @ \ {resolvedName}]

RECURSIVE MarkIn(_, _, _)
RECURSIVE MarkNestedIn(_, _, _, _)
RECURSIVE MarkFieldsIn(_, _, _, _)

\* for _, nested := range descriptor.NestedType, from the i-th on
MarkNestedIn(ctx, an, resolvedName, i) ==
    IF i > Len(typeRegistry[resolvedName].nestedType) THEN {an}
    ELSE LET nested == typeRegistry[resolvedName].nestedType[i]
             nestedName == resolvedName \o <<Dot>> \o Tok(nested.name)
         IN  UNION {MarkNestedIn(ctx, after, resolvedName, i + 1) :
                        after \in MarkIn(ctx, an, nestedName)}

\* for _, field := range descriptor.Field, from the i-th on
MarkFieldsIn(ctx, an, resolvedName, i) ==
    IF i > Len(typeRegistry[resolvedName].field) THEN {an}
    ELSE LET field == typeRegistry[resolvedName].field[i]
             afters ==
                 CASE field.type = "message" -> MarkIn(ctx, an, field.typeName)
                   [] field.type = "enum" ->
                          {[an EXCEPT !.enums = @ \cup {resolvedEnumName}] :
                              resolvedEnumName \in ResolveEnumName(field.typeName)}
                   [] OTHER -> {an}
         IN  UNION {MarkFieldsIn(ctx, after, resolvedName, i + 1) : after \in afters}

\* MarkTypeReachableAsInput (ctx "input") or MarkTypeReachableAsOutput
MarkIn(ctx, an, typeName) ==
    UNION {
        IF SeenIn(ctx, an, resolvedName) \/ resolvedName \notin DOMAIN typeRegistry
        THEN {an}
        ELSE LET withEnums(a) == [a EXCEPT !.enums = @ \cup NestedEnumNames(resolvedName)]
                 afterFields ==
                     UNION {MarkFieldsIn(ctx, withEnums(a), resolvedName, 1) :
                                a \in MarkNestedIn(ctx, BeginIn(ctx, an, resolvedName),
                                                   resolvedName, 1)}
             IN  {EndIn(ctx, a, resolvedName) : a \in afterFields}
        : resolvedName \in ResolveTypeName(typeName) }

\* the marking calls AnalyzeRPCDependencies makes, in its order
RECURSIVE MarkingCalls(_, _)
MarkingCalls(methods, target) ==
    IF methods = <<>> THEN <<>>
    ELSE LET method == Head(methods)
             asInput == IF method.inputType # <<>>
                        THEN << [ctx |-> "input", ref |-> method.inputType] >>
                        ELSE <<>>
             asOutput == IF method.outputType # <<>>
                         THEN << [ctx |-> "output", ref |-> method.outputType] >>
                         ELSE <<>>
         IN  (IF shouldIncludeMethod(target, method.options)
              THEN asInput \o asOutput
              ELSE <<>>) \o MarkingCalls(Tail(methods), target)

\* the orders a list of calls can be put in
Orders(q) ==
    {[k \in DOMAIN q |-> q[p[k]]] :
        p \in {f \in [DOMAIN q -> DOMAIN q] : \A i, j \in DOMAIN q : f[i] = f[j] => i = j}}

\* the calls of a list made one after the other
RECURSIVE MarkAll(_, _)
MarkAll(an, markingCalls) ==
    IF markingCalls = <<>> THEN {an}
    ELSE UNION {MarkAll(after, Tail(markingCalls)) :
                    after \in MarkIn(Head(markingCalls).ctx, an, Head(markingCalls).ref)}

AnalyzeReordered ==
    /\ schema.pc \in {"done", "panic"}
    /\ single.pc = "none"
    /\ permuted.pc = "none"
    /\ LET orders == Orders(MarkingCalls(MethodsOf(schema.protoFile.service),
                                         schema.args.target))
           results == UNION {MarkAll(FreshAnalyzer, order) : order \in orders}
       IN  permuted' \in {[pc |-> "done", input |-> an.input, output |-> an.output,
                           enums |-> an.enums] : an \in results}
    /\ UNCHANGED <<schema, plugin, single, registries, marks, reachableEnums, stack, rpc,
                   resolved, included, calls, repeat>>

-----------------------------------------------------------------------------

\* the operations of the dual-context analyzer
AnalyzerNext ==
    \/ MarkTypeReachableAsInput
    \/ MarkTypeReachableAsOutput
    \/ MarkTypeReachable
    \/ MarkAgain
    \/ MarkTypeReachableAfterwards
    \/ StepNested
    \/ StepEnums
    \/ StepField
    \/ StepReturn
    \/ AnalyzeRPCDependencies
    \/ RpcMethod
    \/ RpcOutput

Next ==
    \/ AnalyzerNext
    \/ makeObjectTypes
    \/ Enums
    \/ AddQueriesAndMutations
    \/ SingleAnalyzeRPCDependencies
    \/ AnalyzeReordered

Spec == Init /\ [][Next]_vars

\* the steps of a call that has been entered and has not returned
Running == StepNested \/ StepEnums \/ StepField \/ StepReturn

\* the analyzer alone, where a call that has been entered keeps executing:
\* the program is sequential and no step of a Mark* method waits for anything
FairSpec == Init /\ [][AnalyzerNext]_vars /\ WF_vars(Running)

-----------------------------------------------------------------------------
(* Combined output: Plugin.generateCombinedOutput.  It reads nothing but    *)
(* plugin.schema, so it is applied to lists of schemas drawn from a small   *)
(* set: every category of a schema is a list of entries, an entry has a    *)
(* name, which may be nil, and is told from every other entry by the       *)
(* schema and the place it comes from.                                     *)

\* a Name that is nil
NilName == "<nil>"

EntryNames == {"User", "Role", NilName}

Reverse(list) == [k \in DOMAIN list |-> list[Len(list) + 1 - k]]

\* the entries of one category of the schema at place unit of plugin.schema
EntriesNamed(names, unit) ==
    [k \in DOMAIN names |-> [name |-> names[k], unit |-> unit, at |-> k]]

\* a schema as CreateSchema returns it, its categories filled from names
UnitSchema(names, unit) ==
    [NoSchema EXCEPT !.pc = "done",
                     !.objectTypes = EntriesNamed(names, unit),
                     !.enums = EntriesNamed(Reverse(names), unit),
                     !.inputTypes = EntriesNamed(names, unit),
                     !.mutations = EntriesNamed(Reverse(names), unit),
                     !.queries = EntriesNamed(names, unit)]

\* the values of plugin.schema after processProtoFiles
SchemaLists ==
    {[unit \in DOMAIN lists |-> UnitSchema(lists[unit], unit)] :
        lists \in SeqsUpTo(SeqsUpTo(EntryNames, MaxEntries), MaxUnits)}

\* a loop that keeps of two entries with one name the later one
RECURSIVE DeduplicateKeepingLast(_, _)
DeduplicateKeepingLast(acc, list) ==
    IF list = <<>> THEN acc
    ELSE LET entry == Head(list)
         IN  DeduplicateKeepingLast(
                 IF entry.name = NilName THEN acc
                 ELSE IF entry.name \in acc.seen
                 THEN [acc EXCEPT !.out = [k \in DOMAIN @ |->
                                              IF @[k].name = entry.name THEN entry ELSE @[k]]]
                 ELSE [seen |-> acc.seen \cup {entry.name}, out |-> Append(acc.out, entry)],
                 Tail(list))

\* One of the five loops over a category of a schema: acc.seen is the map
\* of the names met so far, acc.out the list of the combined schema.
RECURSIVE Deduplicate(_, _)
Deduplicate(acc, list) ==
    IF list = <<>> THEN acc
    ELSE LET entry == Head(list)
         IN  Deduplicate(
                 IF entry.name # NilName /\ entry.name \notin acc.seen
                 THEN [seen |-> acc.seen \cup {entry.name}, out |-> Append(acc.out, entry)]
                 ELSE acc,
                 Tail(list))

Categories == {"objectTypes", "enums", "inputTypes", "mutations", "queries"}

\* the loop over plugin.schema
RECURSIVE combine(_, _)
combine(acc, schemas) ==
    IF schemas = <<>> THEN acc
    ELSE combine([category \in Categories |->
                     Deduplicate(acc[category], Head(schemas)[category])],
                 Tail(schemas))

generateCombinedOutput ==
    /\ plugin.pc = "schemas"
    /\ LET acc == combine([category \in Categories |-> [seen |-> {}, out |-> <<>>]],
                          plugin.schema)
       IN  plugin' = [plugin EXCEPT
                         !.pc = "combined",
                         !.combinedSchema =
                             [NoSchema EXCEPT !.objectTypes = acc["objectTypes"].out,
                                              !.enums = acc["enums"].out,
                                              !.inputTypes = acc["inputTypes"].out,
                                              !.mutations = acc["mutations"].out,
                                              !.queries = acc["queries"].out]]
    /\ UNCHANGED <<schema, single, permuted, registries, marks, reachableEnums, stack, rpc, resolved,
                   included, calls, repeat>>

\* processProtoFiles has filled plugin.schema; no analyzer is in use
MergeInit ==
    /\ NewTypeAnalyzer(<<>>)
    /\ stack = <<>>
    /\ rpc = NoRpc
    /\ resolved = NoResolve
    /\ included = NoFilter
    /\ calls = 0
    /\ repeat = NoRepeat
    /\ schema = NoSchema
    /\ single = NewSingle
    /\ permuted = NoPermuted
    /\ \E schemas \in SchemaLists :
           plugin = [NoPlugin EXCEPT !.pc = "schemas", !.schema = schemas]

MergeNext == generateCombinedOutput

MergeSpec == MergeInit /\ [][MergeNext]_vars

-----------------------------------------------------------------------------
(* Notions the properties are stated with *)

\* the endpoint filter as the specification words it
Admitted(t, o) ==
    /\ ~o.skip
    /\ \/ t \in {"all", "*"}
       \/ o.target \in {"all", "*"}
       \/ t = o.target

Range(q) == {q[k] : k \in DOMAIN q}

\* the registered messages a reference can resolve to
Targets(ref) == ResolveTypeName(ref) \cap DOMAIN typeRegistry

\* the registered nested messages of a registered message
NestedOf(T) ==
    {T \o <<Dot, m.name>> : m \in Range(typeRegistry[T].nestedType)}
        \cap DOMAIN typeRegistry

\* the references of the message-kind fields of a registered message
MessageRefs(T) ==
    {f.typeName : f \in {g \in Range(typeRegistry[T].field) : g.type = "message"}}

\* the references of the enum-kind fields of a registered message
EnumRefs(T) ==
    {f.typeName : f \in {g \in Range(typeRegistry[T].field) : g.type = "enum"}}

\* one step along a nested declaration or a message-kind field reference
Successors(T) == NestedOf(T) \cup UNION {Targets(ref) : ref \in MessageRefs(T)}

RECURSIVE Closure(_)
Closure(S) ==
    LET more == S \cup UNION {Successors(T) : T \in S}
    IN  IF more = S THEN S ELSE Closure(more)

\* S holds a resolution of every seed and of every reference of its members
ClosedFrom(seedRefs, S) ==
    /\ \A ref \in seedRefs : Targets(ref) # {} => Targets(ref) \cap S # {}
    /\ \A T \in S :
           /\ NestedOf(T) \subseteq S
           /\ \A ref \in MessageRefs(T) : Targets(ref) # {} => Targets(ref) \cap S # {}

\* S is the closure of the seeds: it holds nothing the references cannot
\* reach and it is closed (with references that resolve in one way only,
\* S = Closure of the resolved seeds)
IsClosureOf(seedRefs, S) ==
    /\ S \subseteq Closure(UNION {Targets(ref) : ref \in seedRefs})
    /\ ClosedFrom(seedRefs, S)

AdmittedMethods ==
    {m \in Range(MethodsOf(rpc.services)) : Admitted(rpc.target, m.options)}

\* the last component of a qualified name, as a bare name
ShortName(T) == <<T[Len(T)]>>

-----------------------------------------------------------------------------
(* C1: after AnalyzeRPCDependencies on a freshly built analyzer,           *)
(* inputReachableTypes is exactly the set of registered messages reachable *)
(* from the resolved input types of the admitted methods along nested      *)
(* declarations and message-kind field references, outputReachableTypes is *)
(* the same closure of the admitted output types, and a type used only by  *)
(* methods that are not admitted is in neither.                            *)
C1_AnalysisIsClosure ==
    (rpc.pc = "done") =>
        /\ IsClosureOf({m.inputType : m \in AdmittedMethods} \ {<<>>},
                       inputReachableTypes)
        /\ IsClosureOf({m.outputType : m \in AdmittedMethods} \ {<<>>},
                       outputReachableTypes)

\* an analysis that admitted some methods and refused one whose types stay out
C1_Witness ==
    /\ rpc.pc = "done"
    /\ inputReachableTypes # {}
    /\ outputReachableTypes # {}
    /\ inputReachableTypes # outputReachableTypes
    /\ \E m \in Range(MethodsOf(rpc.services)) :
           /\ ~Admitted(rpc.target, m.options)
           /\ Targets(m.inputType) # {}
           /\ Targets(m.inputType) \cap (inputReachableTypes \cup outputReachableTypes) = {}


-----------------------------------------------------------------------------
(* C2, as claimed: a type reached only in the input context is input-      *)
(* reachable and not output-reachable, queried by its fully qualified name *)
(* and queried by its bare short name; symmetrically for the output        *)
(* context.                                                                *)
C2_SeparationByAnyName ==
    /\ \A T \in inputReachableTypes \ outputReachableTypes :
           /\ IsInputReachable(T) /\ ~IsOutputReachable(T)
           /\ IsInputReachable(ShortName(T)) /\ ~IsOutputReachable(ShortName(T))
    /\ \A T \in outputReachableTypes \ inputReachableTypes :
           /\ IsOutputReachable(T) /\ ~IsInputReachable(T)
           /\ IsOutputReachable(ShortName(T)) /\ ~IsInputReachable(ShortName(T))

(* C2, amended: the same for the fully qualified name; by the bare short   *)
(* name the query of the type's own context is true, and the query of the  *)
(* other context is false provided no type with the same short name is     *)
(* reachable in that other context.                                        *)
C2_Separation ==
    /\ \A T \in inputReachableTypes \ outputReachableTypes :
           /\ IsInputReachable(T) /\ ~IsOutputReachable(T)
           /\ IsInputReachable(ShortName(T))
           /\ (\A U \in outputReachableTypes : ShortName(U) # ShortName(T))
                  => ~IsOutputReachable(ShortName(T))
    /\ \A T \in outputReachableTypes \ inputReachableTypes :
           /\ IsOutputReachable(T) /\ ~IsInputReachable(T)
           /\ IsOutputReachable(ShortName(T))
           /\ (\A U \in inputReachableTypes : ShortName(U) # ShortName(T))
                  => ~IsInputReachable(ShortName(T))

\* both contexts hold a type of their own, with short names the other lacks
C2_Witness ==
    /\ Idle
    /\ \E T \in inputReachableTypes \ outputReachableTypes :
           \A U \in outputReachableTypes : ShortName(U) # ShortName(T)
    /\ \E T \in outputReachableTypes \ inputReachableTypes :
           \A U \in inputReachableTypes : ShortName(U) # ShortName(T)

-----------------------------------------------------------------------------
\* the successors of a registered message that do not depend on the order
\* in which the namespaces are tried: nested declarations, and field
\* references that resolve in one way only
DefiniteSuccessors(T) ==
    NestedOf(T) \cup
        UNION {Targets(ref) : ref \in {r \in MessageRefs(T) : Cardinality(Targets(r)) = 1}}

RECURSIVE DefiniteClosure(_)
DefiniteClosure(S) ==
    LET more == S \cup UNION {DefiniteSuccessors(T) : T \in S}
    IN  IF more = S THEN S ELSE DefiniteClosure(more)

\* the registered messages on a cycle through T (T itself when T -> T)
CycleOf(T) ==
    {U \in UNION {DefiniteClosure({V}) : V \in DefiniteSuccessors(T)} :
        T \in DefiniteClosure(DefiniteSuccessors(U))}

\* S holds, with each of its members, the whole of every cycle through it
CyclesWithin(S) == \A T \in S : CycleOf(T) \subseteq S

(* C3: a Mark* call always returns, also when the registered messages      *)
(* refer to each other in a cycle (A -> B -> A, or A -> A) through fields  *)
(* or nesting, and when it has returned every registered type on a cycle   *)
(* through a marked type is in the reachability set of the marking context.*)
C3_TerminatesWithCycles ==
    /\ (~Idle) ~> Idle
    /\ [](Idle => CyclesWithin(inputReachableTypes) /\ CyclesWithin(outputReachableTypes))

\* calls have returned having marked a two-message cycle in the input
\* context and a message that refers to itself in the output context
C3_Witness ==
    /\ Idle
    /\ \E T \in inputReachableTypes : \E U \in CycleOf(T) : U # T /\ U \in inputReachableTypes
    /\ \E T \in outputReachableTypes : T \in DefiniteSuccessors(T)

-----------------------------------------------------------------------------
(* C4: marking is idempotent: when MarkTypeReachableAsInput (resp.         *)
(* AsOutput) has been called twice in a row with the same name, the three  *)
(* sets are as they were after the first call.                             *)
C4_MarkingIdempotent ==
    (Idle /\ repeat.phase = "second" /\ repeat.ctx \in {"input", "output"})
        => Sets = repeat.before

\* the same, for the names that resolve in one way only
C4_IdempotentWhenResolutionIsUnique ==
    (/\ Idle
     /\ repeat.phase = "second"
     /\ repeat.ctx \in {"input", "output"}
     /\ Cardinality(ResolveTypeName(repeat.ref)) = 1)
        => Sets = repeat.before

-----------------------------------------------------------------------------
(* C5: in every state the names in inputReachableTypes and in              *)
(* outputReachableTypes are keys of the type registry and the names in     *)
(* reachableEnums are keys of the enum registry, so that marking a name    *)
(* that resolves to no registered declaration (an enum-kind field whose    *)
(* reference resolves to no registered enum included) adds nothing.        *)
C5_SetsWithinRegistries ==
    /\ inputReachableTypes \subseteq DOMAIN typeRegistry
    /\ outputReachableTypes \subseteq DOMAIN typeRegistry
    /\ reachableEnums \subseteq DOMAIN enumRegistry

\* the part of C5 about the two sets of types
C5_TypesWithinRegistry ==
    /\ inputReachableTypes \subseteq DOMAIN typeRegistry
    /\ outputReachableTypes \subseteq DOMAIN typeRegistry

-----------------------------------------------------------------------------
(* C6: for every target t of the run and options o of a method (no options *)
(* counting as skip = false, target = ""), the method is admitted iff      *)
(* o.skip is false and (t is "all" or "*", or o.target is "all" or "*", or *)
(* t = o.target); so skip = true excludes under every target, wildcards    *)
(* included, and a method with the empty target is admitted only by an     *)
(* empty or wildcard target of the run.                                    *)
C6_FilterSemantics ==
    included.called =>
        LET t == included.cliTarget
            o == included.options
        IN  /\ included.result <=>
                   (~o.skip /\ (t \in {"all", "*"} \/ o.target \in {"all", "*"} \/ t = o.target))
            /\ o.skip => ~included.result
            /\ (o.target = "" /\ included.result) => t \in {"", "all", "*"}

\* a skipped method with a wildcard target refused under a wildcard target
C6_Witness ==
    /\ included.called
    /\ included.options.skip
    /\ included.options.target = "*"
    /\ included.cliTarget \in {"all", "*"}
    /\ ~included.result

-----------------------------------------------------------------------------
\* ref qualified under namespace pkgName
Candidate(pkgName, ref) == <<Dot>> \o Tok(pkgName) \o <<Dot>> \o ref

(* C7: ResolveTypeName(ref) returns the first candidate that is a key of   *)
(* the registry, trying in order ref itself (when it starts with "."),     *)
(* ref under the primary namespace, ref under each other known namespace,  *)
(* and ref with only a leading "."; a bare name declared in the primary    *)
(* namespace and in another one resolves to the primary one, and with no   *)
(* registered candidate the reference is returned unchanged.               *)
C7_ResolutionOrder ==
    resolved.called =>
        LET ref == resolved.ref
            name == resolved.name
            reg == DOMAIN typeRegistry
            others == {Candidate(pkgName, ref) : pkgName \in packageNames \ {""}} \cap reg
        IN  IF Head(ref) = Dot /\ ref \in reg THEN name = ref
            ELSE IF packageName # "" /\ Candidate(packageName, ref) \in reg
            THEN name = Candidate(packageName, ref)
            ELSE IF others # {} THEN name \in others
            ELSE IF (<<Dot>> \o ref) \in reg THEN name = <<Dot>> \o ref
            ELSE name = ref

\* a bare name declared in the primary namespace and in another one has
\* been resolved to the declaration of the primary namespace
C7_Witness ==
    /\ resolved.called
    /\ Head(resolved.ref) # Dot
    /\ packageName # ""
    /\ resolved.name = Candidate(packageName, resolved.ref)
    /\ \E pkgName \in packageNames \ {"", packageName} :
           Candidate(pkgName, resolved.ref) \in DOMAIN typeRegistry

-----------------------------------------------------------------------------
\* the declaration of the bare name ref in namespace N
DeclarationIn(N, ref) == <<Dot>> \o Tok(N) \o (IF N = "" THEN <<>> ELSE <<Dot>>) \o ref

\* the namespace that declares the registered message M
NamespaceOf(M) ==
    IF Len(M) >= 4 /\ M[2] \in packageNames /\ M[3] = Dot THEN M[2] ELSE ""

\* the bare references of the message-kind fields of a registered message
BareRefs(M) == {ref \in MessageRefs(M) : Head(ref) # Dot}

\* <<M, ref, N>>: the registered message M refers by the bare name ref to
\* a type that a namespace N other than its own declares
CrossReferences ==
    {x \in UNION {{<<M, ref, N>> : ref \in BareRefs(M), N \in packageNames} :
                     M \in DOMAIN typeRegistry} :
        /\ x[3] # NamespaceOf(x[1])
        /\ DeclarationIn(x[3], x[2]) \in DOMAIN typeRegistry}

(* C8, as claimed: a type declared in namespace N and referenced by its    *)
(* bare name from a message of another namespace resolves to               *)
(* ".N.TypeName"; when the referencing message has been marked in a        *)
(* context, the query of that context is true for ".N.TypeName" and for    *)
(* the bare "TypeName", and the query of the other context is false.       *)
C8_CrossNamespaceAsClaimed ==
    \A x \in CrossReferences :
        LET M == x[1]
            ref == x[2]
            T == DeclarationIn(x[3], ref)
        IN  /\ ResolveTypeName(ref) = {T}
            /\ (Idle /\ M \in inputReachableTypes \ outputReachableTypes) =>
                   /\ IsInputReachable(T) /\ IsInputReachable(ref)
                   /\ ~IsOutputReachable(T) /\ ~IsOutputReachable(ref)
            /\ (Idle /\ M \in outputReachableTypes \ inputReachableTypes) =>
                   /\ IsOutputReachable(T) /\ IsOutputReachable(ref)
                   /\ ~IsInputReachable(T) /\ ~IsInputReachable(ref)

(* C8, amended: such a reference resolves to a registered declaration of   *)
(* TypeName: the one of the primary namespace when the primary namespace   *)
(* declares it, else the one of some named namespace that declares it,     *)
(* hence ".N.TypeName" when N is named and is the only namespace that      *)
(* declares it.  When the referencing message has been marked in a         *)
(* context, the query of that context is true for a resolution of the      *)
(* reference and for the bare "TypeName"; the query of the other context   *)
(* is true for a resolution exactly when that resolution is in the other   *)
(* context's set, and is false for the bare name when no type in that set  *)
(* has TypeName for its short name.                                        *)
C8_CrossNamespace ==
    \A x \in CrossReferences :
        LET M == x[1]
            ref == x[2]
            N == x[3]
            T == DeclarationIn(N, ref)
            named == {P \in packageNames \ {""} : DeclarationIn(P, ref) \in DOMAIN typeRegistry}
            R == ResolveTypeName(ref)
        IN  /\ R \subseteq DOMAIN typeRegistry
            /\ IF packageName \in named THEN R = {DeclarationIn(packageName, ref)}
               ELSE IF named # {} THEN R = {DeclarationIn(P, ref) : P \in named}
               ELSE R = {T}
            /\ named = {N} => R = {T}
            /\ (Idle /\ M \in inputReachableTypes) =>
                   /\ \E r \in R : r \in inputReachableTypes /\ IsInputReachable(r)
                   /\ IsInputReachable(ref)
            /\ (Idle /\ M \in outputReachableTypes) =>
                   /\ \E r \in R : r \in outputReachableTypes /\ IsOutputReachable(r)
                   /\ IsOutputReachable(ref)
            /\ \A r \in R :
                   /\ IsInputReachable(r) <=> r \in inputReachableTypes
                   /\ IsOutputReachable(r) <=> r \in outputReachableTypes
            /\ (\A U \in inputReachableTypes : ShortName(U) # ref) => ~IsInputReachable(ref)
            /\ (\A U \in outputReachableTypes : ShortName(U) # ref) => ~IsOutputReachable(ref)

\* a message marked in the input context only, whose bare reference to a
\* type of another namespace has been followed to ".N.TypeName"
C8_Witness ==
    /\ Idle
    /\ \E x \in CrossReferences :
           /\ x[3] # ""
           /\ ResolveTypeName(x[2]) = {DeclarationIn(x[3], x[2])}
           /\ x[1] \in inputReachableTypes \ outputReachableTypes
           /\ DeclarationIn(x[3], x[2]) \in inputReachableTypes \ outputReachableTypes
           /\ IsInputReachable(x[2])
           /\ ~IsOutputReachable(x[2])

-----------------------------------------------------------------------------
\* the names of the enums declared directly inside the registered message T
DeclaredEnums(T) == {T \o <<Dot, e>> : e \in Range(typeRegistry[T].enumType)}

\* the messages marked by a call that has returned
Marked == (inputReachableTypes \ inProgressInput) \cup (outputReachableTypes \ inProgressOutput)

(* C9: whenever a message T is in inputReachableTypes or in                *)
(* outputReachableTypes and the call that added it has returned, every     *)
(* enum declared directly inside T is in reachableEnums under the name     *)
(* T + "." + enumName, and IsEnumReachable holds for it, whichever context *)
(* marked T.                                                               *)
C9_NestedEnumsReachable ==
    \A T \in Marked :
        \A E \in DeclaredEnums(T) : E \in reachableEnums /\ IsEnumReachable(E)

\* a message that declares an enum no field refers to has been marked in
\* the output context only, and the enum answers the query
C9_Witness ==
    /\ Idle
    /\ \E T \in outputReachableTypes \ inputReachableTypes :
           \E E \in DeclaredEnums(T) :
               /\ \A U \in DOMAIN typeRegistry : \A ref \in EnumRefs(U) : E \notin ResolveEnumName(ref)
               /\ IsEnumReachable(E)

-----------------------------------------------------------------------------
\* the names the enum-kind fields of the reachable messages resolve to
ReferencedEnums ==
    UNION {UNION {ResolveEnumName(ref) : ref \in EnumRefs(T)} :
              T \in inputReachableTypes \cup outputReachableTypes}

-----------------------------------------------------------------------------
(* Notions the properties of the projection are stated with *)

\* makeObjectTypes has returned
Projected == schema.pc \in {"enums", "entries", "done", "panic"}

\* the messages a file declares, nested ones included, by full name
RECURSIVE DeclaredIn(_, _, _)
DeclaredIn(messages, prefix, pkgName) ==
    IF messages = <<>> THEN {}
    ELSE LET T == FullName(prefix, pkgName, Head(messages).name)
         IN  {T} \cup DeclaredIn(Head(messages).nestedType, T, pkgName)
                 \cup DeclaredIn(Tail(messages), prefix, pkgName)

DeclaredByUnit == DeclaredIn(schema.protoFile.messageType, <<>>, schema.protoFile.package)

\* the messages the object types of the unit were built from
Emitted == {entry.message : entry \in Range(schema.objectTypes)}

EitherReachable == inputReachableTypes \cup outputReachableTypes

HasFields(T) == Len(typeRegistry[T].field) > 0

-----------------------------------------------------------------------------
(* C11: once makeObjectTypes has returned, every registered message that   *)
(* is in inputReachableTypes or outputReachableTypes of the unit's         *)
(* analyzer and has at least one field is the message of an entry of the   *)
(* unit's object-type list, messages declared in another input file        *)
(* included.                                                               *)
C11_EveryReachableMessageEmitted ==
    Projected =>
        \A T \in EitherReachable \cap DOMAIN typeRegistry : HasFields(T) => T \in Emitted

\* the messages the file of the unit declares at top level
TopLevelOfUnit ==
    {FullName(<<>>, schema.protoFile.package, message.name) :
        message \in Range(schema.protoFile.messageType)}

\* what the code does emit of them: the reachable messages with fields
\* that the file of the unit declares at top level
C11_ReachableTopLevelMessagesOfTheUnitEmitted ==
    Projected =>
        \A T \in EitherReachable \cap TopLevelOfUnit : HasFields(T) => T \in Emitted

-----------------------------------------------------------------------------
(* C12: every entry of the unit's object-type list is built from a message *)
(* that the unit's file declares, whose fully qualified name is in         *)
(* inputReachableTypes or outputReachableTypes of the unit's analyzer, and *)
(* that has at least one field; the entry carries the message's name.      *)
C12_OnlyReachableMessagesWithFields ==
    \A entry \in Range(schema.objectTypes) :
        /\ entry.message \in DeclaredByUnit
        /\ entry.message \in EitherReachable
        /\ HasFields(entry.message)
        /\ Tok(entry.name) = ShortName(entry.message)

\* a unit that emits a top-level and a nested message and leaves out a
\* reachable message that has no field
C12_Witness ==
    /\ Projected
    /\ \E T \in Emitted : T \in TopLevelOfUnit
    /\ \E T \in Emitted : T \notin TopLevelOfUnit
    /\ \E T \in (DeclaredByUnit \cap EitherReachable) \ Emitted : ~HasFields(T)

-----------------------------------------------------------------------------
(* C13: every entry of the unit's object-type list is built from a message *)
(* in outputReachableTypes: a message reachable only from the input types  *)
(* of the endpoints is no entry of the list.                               *)
C13_OnlyOutputReachableEmitted ==
    \A entry \in Range(schema.objectTypes) : entry.message \in outputReachableTypes

-----------------------------------------------------------------------------
(* Notions the properties of the entries are stated with *)

\* the methods of the unit's file, in declaration order
UnitMethods == MethodsOf(schema.protoFile.service)

\* the queries and mutations of the unit
Entries == Range(schema.queries) \cup Range(schema.mutations)

\* the method an entry was built from
MethodOf(entry) == CHOOSE method \in Range(UnitMethods) : method.name = entry.name

\* the name of a type without its namespace and enclosing messages
BareName(typeName) == IF typeName = <<>> THEN <<>> ELSE ShortName(typeName)

-----------------------------------------------------------------------------
(* C14: the entry of an admitted endpoint whose input type is the message  *)
(* named "Empty" carries no input parameter, with or without a gql_input   *)
(* annotation: its input is marked empty and does not name the input type  *)
(* "IEmpty".                                                               *)
C14_EmptyInputHasNoParameter ==
    \A entry \in Entries :
        BareName(MethodOf(entry).inputType) = <<"Empty">> =>
            /\ entry.input.empty
            /\ entry.input.type # <<"I", "Empty">>

-----------------------------------------------------------------------------
(* C15: the entry of an admitted endpoint that has no gql_input type       *)
(* override names as its input type "I" followed by the bare name of the   *)
(* endpoint's input message, whatever the namespace that declares the      *)
(* message.                                                                *)
HasInputOverride(method) ==
    method.options.gqlInput.set /\ method.options.gqlInput.type # <<>>

C15_DerivedInputName ==
    \A entry \in Entries :
        ~HasInputOverride(MethodOf(entry)) =>
            entry.input.type = <<"I">> \o BareName(MethodOf(entry).inputType)

\* what the code derives: the prefix "." + package + "." of the unit's own
\* file is cut off, and nothing else
C15_DerivedInputNameOfTheUnitsNamespace ==
    \A entry \in Entries :
        LET inputType == MethodOf(entry).inputType
        IN  (/\ ~HasInputOverride(MethodOf(entry))
             /\ inputType \in TopLevelOfUnit)
                => entry.input.type = <<"I">> \o BareName(inputType)

-----------------------------------------------------------------------------
(* C16: when the gql_input type of an endpoint names a primitive (String,  *)
(* Boolean, Bool, Int, Float), plainly or as an array "[T]", the input     *)
(* type of the entry is the primitive, Bool written Boolean, in the same   *)
(* plain or array form, and never an "I"-prefixed name; a type "X" that is *)
(* neither a primitive nor "Empty" gives "IX".                             *)
Primitives == {"String", "Boolean", "Bool", "Int", "Float"}

Normalised(T) == IF T = "Bool" THEN "Boolean" ELSE T

\* the input type C16 asks for, for the overrides it speaks of
ClaimedInputType(override) ==
    IF Len(override) = 1 /\ override[1] \in Primitives
    THEN <<Normalised(override[1])>>
    ELSE IF /\ Len(override) = 3 /\ override[1] = LBracket /\ override[3] = RBracket
            /\ override[2] \in Primitives
    THEN <<LBracket, Normalised(override[2]), RBracket>>
    ELSE <<"I">> \o override

\* the overrides C16 speaks of
ClaimedOverride(override) ==
    \/ Len(override) = 1 /\ override[1] \notin {"Empty", LBracket, RBracket}
       /\ Upper(override[1]) = override[1]
    \/ /\ Len(override) = 3 /\ override[1] = LBracket /\ override[3] = RBracket
       /\ override[2] \in Primitives

C16_PrimitiveOverride ==
    \A entry \in Entries :
        LET override == MethodOf(entry).options.gqlInput.type
        IN  (HasInputOverride(MethodOf(entry)) /\ ClaimedOverride(override))
                => entry.input.type = ClaimedInputType(override)

\* the part of it the code keeps: arrays of primitives, and names that are
\* neither primitive nor "Empty"
C16_ArrayAndNamedOverride ==
    \A entry \in Entries :
        LET override == MethodOf(entry).options.gqlInput.type
        IN  (/\ HasInputOverride(MethodOf(entry))
             /\ ClaimedOverride(override)
             /\ ~(Len(override) = 1 /\ override[1] \in Primitives))
                => entry.input.type = ClaimedInputType(override)

-----------------------------------------------------------------------------
(* C17: the output type of the entry of an admitted endpoint is the        *)
(* gql_output override when one is given, and otherwise the bare name of   *)
(* the endpoint's output type with its first letter capitalized.           *)
C17_OutputName ==
    \A entry \in Entries :
        LET method == MethodOf(entry)
        IN  entry.payload = IF method.options.gqlOutput # <<>>
                            THEN method.options.gqlOutput
                            ELSE UppercaseFirst(BareName(method.outputType))

\* what the code gives: the override with its first letter capitalized,
\* and otherwise the output type without the prefix "." + package + "." of
\* the unit's own file
C17_OutputNameOfTheUnitsNamespace ==
    \A entry \in Entries :
        LET method == MethodOf(entry)
        IN  /\ method.options.gqlOutput # <<>>
                => entry.payload = UppercaseFirst(method.options.gqlOutput)
            /\ (method.options.gqlOutput = <<>> /\ method.outputType \in TopLevelOfUnit)
                => entry.payload = BareName(method.outputType)

-----------------------------------------------------------------------------
(* C18: AddQueriesAndMutations leaves exactly one entry for every admitted *)
(* endpoint of the unit's file and none for the others: the names of the   *)
(* mutations are those of the admitted endpoints of kind mutation, in      *)
(* declaration order, and the names of the queries are those of the        *)
(* admitted endpoints of every other kind, in declaration order.           *)

\* the kind is mutation, in either spelling
IsMutation(method) == method.options.kind \in {"mutation", "Mutation"}

AdmittedEndpoint(method) == Admitted(schema.args.target, method.options)

NamesOf(list) == [k \in DOMAIN list |-> list[k].name]

\* CreateSchema is over: AddQueriesAndMutations returned or panicked
Over == schema.pc \in {"done", "panic"}

C18_OneEntryPerAdmittedEndpoint ==
    Over =>
        LET mutation(method) == AdmittedEndpoint(method) /\ IsMutation(method)
            query(method) == AdmittedEndpoint(method) /\ ~IsMutation(method)
        IN  /\ NamesOf(schema.mutations) = NamesOf(SelectSeq(UnitMethods, mutation))
            /\ NamesOf(schema.queries) = NamesOf(SelectSeq(UnitMethods, query))

\* the entries are as claimed whenever AddQueriesAndMutations returns
C18_OneEntryPerAdmittedEndpointOnReturn ==
    (schema.pc = "done") =>
        LET mutation(method) == AdmittedEndpoint(method) /\ IsMutation(method)
            query(method) == AdmittedEndpoint(method) /\ ~IsMutation(method)
        IN  /\ NamesOf(schema.mutations) = NamesOf(SelectSeq(UnitMethods, mutation))
            /\ NamesOf(schema.queries) = NamesOf(SelectSeq(UnitMethods, query))

-----------------------------------------------------------------------------
(* C19: in the combined schema every category holds no two entries with    *)
(* one name, holds an entry for every name that an entry of that category  *)
(* has in some schema of plugin.schema, holds for each name the first      *)
(* entry with that name, in the order of plugin.schema and of the lists,   *)
(* and keeps the entries in the order in which they come there.            *)

\* the entries of a category, over all the schemas, in order
RECURSIVE AllEntries(_, _)
AllEntries(schemas, category) ==
    IF schemas = <<>> THEN <<>>
    ELSE Head(schemas)[category] \o AllEntries(Tail(schemas), category)

\* the place of the first entry with the name
FirstPlace(list, name) ==
    CHOOSE k \in DOMAIN list :
        list[k].name = name /\ \A j \in 1..(k - 1) : list[j].name # name

C19_MergeKeepsFirstOccurrences ==
    (plugin.pc = "combined") =>
        \A category \in Categories :
            LET merged == plugin.combinedSchema[category]
                all == AllEntries(plugin.schema, category)
                names == {entry.name : entry \in Range(all)} \ {NilName}
            IN  /\ \A i, j \in DOMAIN merged : i # j => merged[i].name # merged[j].name
                /\ {entry.name : entry \in Range(merged)} = names
                /\ \A i \in DOMAIN merged : merged[i] = all[FirstPlace(all, merged[i].name)]
                /\ \A i, j \in DOMAIN merged :
                       i < j => FirstPlace(all, merged[i].name) < FirstPlace(all, merged[j].name)

\* two schemas with a name in common, the second with a name of its own,
\* merged into lists of two entries
C19_Witness ==
    /\ plugin.pc = "combined"
    /\ Len(plugin.schema) = 2
    /\ \E a \in Range(plugin.schema[1].queries), b \in Range(plugin.schema[2].queries) :
           a.name = b.name /\ a.name # NilName
    /\ \E b \in Range(plugin.schema[2].queries) :
           /\ b.name # NilName
           /\ \A a \in Range(plugin.schema[1].queries) : a.name # b.name
    /\ \A category \in Categories : Len(plugin.combinedSchema[category]) = 2

-----------------------------------------------------------------------------
(* C20: a field of an emitted object type keeps the name the message       *)
(* declares exactly when keep-case is in effect for it, which the field's  *)
(* own keep_case annotation decides when the field has one and the         *)
(* keep_case argument of the run decides otherwise; in every other case    *)
(* its name is the lower camel case of the declared name.                  *)

\* the declared field an emitted field was built from
DeclaredField(entry, i) == typeRegistry[entry.message].field[i]

C20_KeepCaseInEffect ==
    \A entry \in Range(schema.objectTypes) :
        \A i \in DOMAIN entry.fields :
            LET field == DeclaredField(entry, i)
                inEffect == IF field.keepCase # "unset" THEN field.keepCase = "true"
                            ELSE schema.args.keepCase
            IN  entry.fields[i].name =
                    IF inEffect THEN field.name ELSE CamelCase(field.name)

\* what the code does: the annotation of the field alone decides
C20_KeepCaseOfTheField ==
    \A entry \in Range(schema.objectTypes) :
        \A i \in DOMAIN entry.fields :
            LET field == DeclaredField(entry, i)
            IN  entry.fields[i].name =
                    IF field.keepCase = "true" THEN field.name ELSE CamelCase(field.name)

-----------------------------------------------------------------------------
(* C21: run on the files, services and target of the dual-context          *)
(* analyzer, the single-context analyzer ends with reachableTypes equal to *)
(* the union of inputReachableTypes and outputReachableTypes and with the  *)
(* same reachableEnums.                                                    *)
C21_SingleIsUnion ==
    (single.pc = "done") =>
        /\ single.reachableTypes = inputReachableTypes \cup outputReachableTypes
        /\ single.reachableEnums = reachableEnums

\* every reference of a registered message resolves in one way only
UniquelyResolved(T) ==
    /\ \A ref \in MessageRefs(T) : Cardinality(ResolveTypeName(ref)) = 1
    /\ \A ref \in EnumRefs(T) : Cardinality(ResolveEnumName(ref)) = 1

\* the input and output references of the admitted methods
AdmittedRefs ==
    UNION {{m.inputType, m.outputType} \ {<<>>} : m \in AdmittedMethods}

\* no reference either analysis can meet is ambiguous
NothingAmbiguous ==
    /\ \A ref \in AdmittedRefs : Cardinality(ResolveTypeName(ref)) = 1
    /\ \A T \in Closure(UNION {Targets(ref) : ref \in AdmittedRefs}) :
           UniquelyResolved(T)

\* the two analyzers agree when no reference they meet is ambiguous
C21_SingleIsUnionWhenResolutionIsUnique ==
    (single.pc = "done" /\ NothingAmbiguous)
        => /\ single.reachableTypes = inputReachableTypes \cup outputReachableTypes
           /\ single.reachableEnums = reachableEnums

-----------------------------------------------------------------------------
(* Notions the membership queries are stated with *)

\* the tails of a name, the empty one included
Tails(name) == {SubSeq(name, i, Len(name)) : i \in 1..(Len(name) + 1)}

\* the names the queries are asked with: every registered or reachable
\* name, every tail of one (bare or dotted), and names that are nowhere
QueryNames ==
    UNION {Tails(name) : name \in DOMAIN typeRegistry \cup DOMAIN enumRegistry
                                     \cup inputReachableTypes \cup outputReachableTypes
                                     \cup reachableEnums}
        \cup {<<"Nowhere">>, <<Dot, "svc", Dot, "Nowhere">>}

\* the answer the queries are claimed to give over a set of names
ClaimedMember(set, name) ==
    IF name = <<>> THEN FALSE
    ELSE IF name[1] = Dot THEN name \in set
    ELSE \E member \in set :
             /\ Len(member) > Len(name)
             /\ member[Len(member) - Len(name)] = Dot
             /\ \A i \in 1..Len(name) : member[Len(member) - Len(name) + i] = name[i]

(* C22: IsInputReachable of a name that starts with "." is true exactly    *)
(* when the name is a member of inputReachableTypes; of a non-empty bare   *)
(* name n, exactly when some member ends with "." + n; of the empty name,  *)
(* false.  The same for IsOutputReachable over outputReachableTypes and    *)
(* IsEnumReachable over reachableEnums, and IsTypeReachable(x) is          *)
(* IsInputReachable(x) or IsOutputReachable(x).                            *)
C22_MembershipQueries ==
    \A name \in QueryNames :
        /\ IsInputReachable(name) = ClaimedMember(inputReachableTypes, name)
        /\ IsOutputReachable(name) = ClaimedMember(outputReachableTypes, name)
        /\ IsEnumReachable(name) = ClaimedMember(reachableEnums, name)
        /\ IsTypeReachable(name) = (IsInputReachable(name) \/ IsOutputReachable(name))

\* the queries answer as claimed over sets that hold registered names only
C22_MembershipQueriesOverRegisteredNames ==
    \A name \in QueryNames :
        /\ IsInputReachable(name) = ClaimedMember(inputReachableTypes, name)
        /\ IsOutputReachable(name) = ClaimedMember(outputReachableTypes, name)
        /\ (reachableEnums \subseteq DOMAIN enumRegistry)
               => (IsEnumReachable(name) = ClaimedMember(reachableEnums, name))
        /\ IsTypeReachable(name) = (IsInputReachable(name) \/ IsOutputReachable(name))

-----------------------------------------------------------------------------
\* the namespaces other than the primary one that declare the message ref
OtherDeclarers(ref) ==
    {pkgName \in packageNames \ {"", packageName} :
        Candidate(pkgName, ref) \in DOMAIN typeRegistry}

(* C23: the result of a name resolution does not depend on the order in    *)
(* which the known namespaces are gone through: the name ResolveTypeName   *)
(* has returned is the only name it can return for the reference, also for *)
(* a bare name declared in two or more non-primary namespaces, and so is   *)
(* the name ResolveEnumName returns for every enum reference of a          *)
(* reachable message.                                                      *)
C23_ResolutionDeterministic ==
    /\ resolved.called => ResolveTypeName(resolved.ref) = {resolved.name}
    /\ \A T \in inputReachableTypes \cup outputReachableTypes :
           \A ref \in EnumRefs(T) : Cardinality(ResolveEnumName(ref)) = 1

\* the result is fixed for a message reference that is registered as it
\* stands, declared in the primary namespace, or declared in at most one
\* other namespace
C23_DeterministicUpToOneOtherNamespace ==
    (/\ resolved.called
     /\ \/ resolved.ref \in DOMAIN typeRegistry /\ Head(resolved.ref) = Dot
        \/ packageName # "" /\ Candidate(packageName, resolved.ref) \in DOMAIN typeRegistry
        \/ Cardinality(OtherDeclarers(resolved.ref)) <= 1)
        => ResolveTypeName(resolved.ref) = {resolved.name}

-----------------------------------------------------------------------------
\* no step takes a name out of a reachability set, and a name whose
\* in-progress mark is cleared stays reachable
NeverUnmarked ==
    /\ inputReachableTypes \subseteq inputReachableTypes'
    /\ outputReachableTypes \subseteq outputReachableTypes'
    /\ reachableEnums \subseteq reachableEnums'
    /\ (inProgressInput \ inProgressInput') \subseteq inputReachableTypes'
    /\ (inProgressOutput \ inProgressOutput') \subseteq outputReachableTypes'

\* the call entered by the step is one of the both-context MarkTypeReachable
EntersBoth == stack' # <<>> /\ stack'[Len(stack')].ctx = "both"

(* C24, as claimed: across any sequence of marking calls no name is ever   *)
(* removed from inputReachableTypes, outputReachableTypes or               *)
(* reachableEnums, and a name is put in progress in a context only while   *)
(* it is unseen in that context, hence at most once per context.           *)
C24_InProgressOncePerContext ==
    [][/\ NeverUnmarked
       /\ \A name \in inProgressInput' \ inProgressInput :
              name \notin inputReachableTypes
       /\ \A name \in inProgressOutput' \ inProgressOutput :
              name \notin outputReachableTypes]_vars

(* C24, amended: no name is ever removed from the three sets; a name is    *)
(* put in progress in a context while it is unseen in that context, or by  *)
(* the both-context MarkTypeReachable while it is reachable in that        *)
(* context and unseen in the other one.                                    *)
C24_InProgressOncePerContextCall ==
    [][/\ NeverUnmarked
       /\ \A name \in inProgressInput' \ inProgressInput :
              \/ name \notin inputReachableTypes
              \/ EntersBoth /\ name \notin outputReachableTypes
       /\ \A name \in inProgressOutput' \ inProgressOutput :
              \/ name \notin outputReachableTypes
              \/ EntersBoth /\ name \notin inputReachableTypes]_vars

\* MarkTypeReachable is running on a name that MarkTypeReachableAsInput had
\* marked before: the name is in progress in the input context again
C24_Witness ==
    /\ repeat.phase = "both"
    /\ stack # <<>>
    /\ stack[1].ctx = "both"
    /\ stack[1].name \in repeat.before.input \ repeat.before.output
    /\ stack[1].name \in inProgressInput \cap inProgressOutput

-----------------------------------------------------------------------------
\* the step is one of a call of the given context: it enters the call or
\* runs inside it
StepOf(ctx) ==
    \/ stack # <<>> /\ stack[1].ctx = ctx
    \/ stack = <<>> /\ stack' # <<>> /\ stack'[1].ctx = ctx

(* C25: no step of MarkTypeReachableAsInput changes outputReachableTypes   *)
(* or inProgressOutput, and no step of MarkTypeReachableAsOutput changes   *)
(* inputReachableTypes or inProgressInput; neither changes a registry.     *)
C25_ContextFrame ==
    [][/\ StepOf("input") =>
              /\ outputReachableTypes' = outputReachableTypes
              /\ inProgressOutput' = inProgressOutput
       /\ StepOf("output") =>
              /\ inputReachableTypes' = inputReachableTypes
              /\ inProgressInput' = inProgressInput
       /\ registries' = registries]_vars

\* an input-context call is running while the output context holds types
\* of its own, and it has reached a type the output context lacks
C25_Witness ==
    /\ stack # <<>>
    /\ stack[1].ctx = "input"
    /\ outputReachableTypes \ inputReachableTypes # {}
    /\ inProgressInput \ outputReachableTypes # {}
    /\ reachableEnums # {}

-----------------------------------------------------------------------------
(* C26: once makeObjectTypes has returned, for every reachable message M   *)
(* that the unit's file declares, every nested message of M that is        *)
(* reachable and has at least one field is the message of an entry of the  *)
(* unit's object-type list, whether or not M itself has a field.           *)
C26_NestedOfReachableEmitted ==
    Projected =>
        \A M \in DeclaredByUnit \cap EitherReachable :
            \A N \in NestedOf(M) \cap EitherReachable :
                HasFields(N) => N \in Emitted

\* a nested message is emitted when every message that encloses it,
\* directly or at a distance, has a field
RECURSIVE EnclosedByFields(_)
EnclosedByFields(T) ==
    \/ T \in TopLevelOfUnit
    \/ /\ Len(T) > 2
       /\ LET parent == SubSeq(T, 1, Len(T) - 2)
          IN  /\ parent \in DeclaredByUnit
              /\ HasFields(parent)
              /\ EnclosedByFields(parent)

C26_NestedOfReachableWithFieldsEmitted ==
    Projected =>
        \A N \in DeclaredByUnit \cap EitherReachable :
            (HasFields(N) /\ EnclosedByFields(N)) => N \in Emitted

-----------------------------------------------------------------------------
\* Enums has returned
Enumerated == schema.pc \in {"entries", "done", "panic"}

\* the enums the file of the unit declares at top level
TopLevelEnumsOfUnit ==
    {FullName(<<>>, schema.protoFile.package, e) : e \in Range(schema.protoFile.enumType)}

\* the enums the file of the unit declares, at top level or inside a
\* message at any depth
EnumsOfUnit ==
    TopLevelEnumsOfUnit \cup UNION {DeclaredEnums(T) : T \in DeclaredByUnit}

\* the enums the entries of the unit's enum list were built from
EmittedEnums == {entry.enum : entry \in Range(schema.enums)}

(* C27: once Enums has returned, every enum that the unit's file declares, *)
(* at top level or nested at any depth, and whose qualified name is in     *)
(* reachableEnums is in the unit's enum list, also a nested enum P.E       *)
(* whose parent P is unreachable or has no field.                          *)
C27_ReachableEnumsEmitted ==
    Enumerated => (EnumsOfUnit \cap reachableEnums) \subseteq EmittedEnums

\* what the code does emit: the reachable top-level enums, and the
\* reachable enums of a reachable message that has a field, as have the
\* messages that enclose it
C27_ReachableEnumsOfEmittedParents ==
    Enumerated =>
        /\ (TopLevelEnumsOfUnit \cap reachableEnums) \subseteq EmittedEnums
        /\ \A P \in DeclaredByUnit \cap EitherReachable :
               (HasFields(P) /\ EnclosedByFields(P))
                   => (DeclaredEnums(P) \cap reachableEnums) \subseteq EmittedEnums

-----------------------------------------------------------------------------
(* C28: the analyzer's filter admits an endpoint exactly when the          *)
(* projector's filter does not skip it, for every target of the run and    *)
(* every options record, the ones the analyzer has just decided on         *)
(* included; hence every query and mutation of the unit is built from an   *)
(* endpoint whose registered input type is in inputReachableTypes and      *)
(* whose registered output type is in outputReachableTypes.                *)
C28_FiltersAgree ==
    /\ \A cliTarget \in CliTargets, methodOptions \in MethodOptionsSet :
           shouldIncludeMethod(cliTarget, methodOptions)
               = ~skipMethod(cliTarget, methodOptions)
    /\ included.called =>
           included.result = ~skipMethod(included.cliTarget, included.options)
    /\ \A entry \in Entries :
           /\ Targets(MethodOf(entry).inputType) # {}
                  => Targets(MethodOf(entry).inputType) \cap inputReachableTypes # {}
           /\ Targets(MethodOf(entry).outputType) # {}
                  => Targets(MethodOf(entry).outputType) \cap outputReachableTypes # {}

\* a finished unit with an entry, whose types are registered, and with an
\* endpoint that both filters have left out for its target
C28_Witness ==
    /\ schema.pc = "done"
    /\ Entries # {}
    /\ \A entry \in Entries :
           /\ Targets(MethodOf(entry).inputType) # {}
           /\ Targets(MethodOf(entry).outputType) # {}
    /\ \E m \in Range(UnitMethods) :
           /\ skipMethod(schema.args.target, m.options)
           /\ ~m.options.skip
           /\ ~shouldIncludeMethod(rpc.target, m.options)

-----------------------------------------------------------------------------
(* C29: a fresh analyzer that is given the MarkTypeReachableAsInput and    *)
(* MarkTypeReachableAsOutput calls of AnalyzeRPCDependencies in any other  *)
(* order ends with the same inputReachableTypes, outputReachableTypes and  *)
(* reachableEnums.                                                         *)
C29_OrderIndependent ==
    (permuted.pc = "done") =>
        /\ permuted.input = inputReachableTypes
        /\ permuted.output = outputReachableTypes
        /\ permuted.enums = reachableEnums

\* the order of the calls does not matter when no reference the analysis
\* can meet is ambiguous
C29_OrderIndependentWhenResolutionIsUnique ==
    (permuted.pc = "done" /\ NothingAmbiguous) =>
        /\ permuted.input = inputReachableTypes
        /\ permuted.output = outputReachableTypes
        /\ permuted.enums = reachableEnums

-----------------------------------------------------------------------------
\* the names of the running activations that mark in the given context
OnStack(ctx) ==
    {stack[k].name : k \in {j \in DOMAIN stack : stack[j].ctx \in {ctx, "both"}}}

(* C30: in every state inProgressInput is a subset of inputReachableTypes  *)
(* and inProgressOutput of outputReachableTypes; the in-progress names of  *)
(* a context are exactly the names of the running activations that mark in *)
(* it, each of them running once; and when a top-level call of             *)
(* MarkTypeReachableAsInput, MarkTypeReachableAsOutput or MarkTypeReachable *)
(* has returned, both in-progress sets are empty.                          *)
C30_InProgressIsTheStack ==
    /\ inProgressInput \subseteq inputReachableTypes
    /\ inProgressOutput \subseteq outputReachableTypes
    /\ inProgressInput = OnStack("input")
    /\ inProgressOutput = OnStack("output")
    /\ \A j, k \in DOMAIN stack : stack[j].name = stack[k].name => j = k
    /\ Idle => (inProgressInput = {} /\ inProgressOutput = {})

\* a both-context call three activations deep, in a state where the input
\* context had been marked before by a call that has returned
C30_Witness ==
    /\ Len(stack) >= 3
    /\ stack[1].ctx = "both"
    /\ repeat.phase = "both"
    /\ repeat.before.input # {}
    /\ Cardinality(inProgressInput) >= 3
    /\ inProgressInput = inProgressOutput
====
